---- MODULE Spec2Model ----
(***************************************************************************)
(* Model of frontend/js/xg_inference.js: the client-side xG prediction     *)
(* pipeline (validation, normalisation, model selection, feature building, *)
(* lazily cached ONNX sessions) as a state machine of predict() calls that *)
(* suspend at their awaits; and of frontend/js/heatmap.js: the page that   *)
(* fetches a grid of xG values and paints it pixel by pixel.               *)
(*                                                                         *)
(* Numbers are exact rationals [n, d]; IEEE rounding and the Float32Array  *)
(* narrowing are not modelled.  JavaScript values are tagged records.      *)
(***************************************************************************)
EXTENDS Integers, Sequences, FiniteSets, TLC

(***************************************************************************)
(* Exact rational arithmetic.                                              *)
(***************************************************************************)
Abs(i) == IF i < 0 THEN -i ELSE i

RECURSIVE GCD(_, _)
GCD(a, b) == IF b = 0 THEN a ELSE GCD(b, a % b)

\* The rational n/d (d # 0) in lowest terms with a positive denominator.
Rat(n, d) ==
    LET g == GCD(Abs(n), Abs(d))
        s == IF d < 0 THEN -1 ELSE 1
    IN  [n |-> (s * n) \div g, d |-> (s * d) \div g]

RInt(i) == [n |-> i, d |-> 1]
RLt(a, b) == a.n * b.d < b.n * a.d
RLe(a, b) == a.n * b.d <= b.n * a.d
RNeg(a) == [n |-> -a.n, d |-> a.d]
RAdd(a, b) ==
    LET g == GCD(a.d, b.d)
    IN  Rat(a.n * (b.d \div g) + b.n * (a.d \div g), (a.d \div g) * b.d)
RSub(a, b) == RAdd(a, RNeg(b))
RMul(a, b) ==
    LET g1 == GCD(Abs(a.n), b.d)
        g2 == GCD(Abs(b.n), a.d)
    IN  Rat((a.n \div g1) * (b.n \div g2), (a.d \div g2) * (b.d \div g1))
\* a / b for b # 0
RDiv(a, b) == RMul(a, IF b.n < 0 THEN [n |-> -b.d, d |-> -b.n] ELSE [n |-> b.d, d |-> b.n])

(***************************************************************************)
(* JavaScript values.                                                      *)
(***************************************************************************)
Null      == [t |-> "null"]
Undefined == [t |-> "undefined"]
NaN       == [t |-> "nan"]
Num(r)    == [t |-> "num", v |-> r]
Str(s)    == [t |-> "str", v |-> s]
Bool(b)   == [t |-> "bool", v |-> b]
Obj(f)    == [t |-> "obj", f |-> f]

\* v == null  (loose equality: true for null and undefined only)
IsNullish(v) == v.t \in {"null", "undefined"}

\* isNaN(v) for a value that parseFloat returned
IsNaN(v) == v.t = "nan"

\* obj.key : the property's value, undefined when the object lacks it
Get(obj, key) == IF key \in DOMAIN obj.f THEN obj.f[key] ELSE Undefined

(***************************************************************************)
(* parseFloat.  A string argument is a sequence of characters; the result  *)
(* is the value of its longest prefix that is a decimal literal (after     *)
(* leading blanks and an optional sign), NaN when there is none.           *)
(***************************************************************************)
DigitVal == ("0" :> 0) @@ ("1" :> 1) @@ ("2" :> 2) @@ ("3" :> 3) @@ ("4" :> 4) @@
            ("5" :> 5) @@ ("6" :> 6) @@ ("7" :> 7) @@ ("8" :> 8) @@ ("9" :> 9)

IsDigit(s, i) == i <= Len(s) /\ s[i] \in DOMAIN DigitVal

\* Reads the run of digits of s that starts at i: its value appended to acc,
\* the number of digits read and the index after the run.
RECURSIVE ScanDigits(_, _, _, _)
ScanDigits(s, i, acc, cnt) ==
    IF IsDigit(s, i)
    THEN ScanDigits(s, i + 1, acc * 10 + DigitVal[s[i]], cnt + 1)
    ELSE [val |-> acc, cnt |-> cnt, next |-> i]

RECURSIVE SkipBlanks(_, _)
SkipBlanks(s, i) == IF i <= Len(s) /\ s[i] = " " THEN SkipBlanks(s, i + 1) ELSE i

RECURSIVE Pow10(_)
Pow10(k) == IF k = 0 THEN 1 ELSE 10 * Pow10(k - 1)

\* The number read: none when neither digit run holds a digit.
MakeNumber(neg, ip, fp) ==
    IF ip.cnt + fp.cnt = 0 THEN NaN
    ELSE IF neg THEN Num(RNeg(RAdd(RInt(ip.val), Rat(fp.val, Pow10(fp.cnt)))))
    ELSE Num(RAdd(RInt(ip.val), Rat(fp.val, Pow10(fp.cnt))))

\* ip is the integer part read; a "." after it starts the fraction.
ParseFraction(s, neg, ip) ==
    MakeNumber(neg, ip,
               IF ip.next <= Len(s) /\ s[ip.next] = "."
               THEN ScanDigits(s, ip.next + 1, 0, 0)
               ELSE [val |-> 0, cnt |-> 0, next |-> ip.next])

\* i0 is the index of the first character that is not a blank.
ParseSigned(s, i0) ==
    ParseFraction(s, i0 <= Len(s) /\ s[i0] = "-",
                  ScanDigits(s, IF i0 <= Len(s) /\ s[i0] \in {"-", "+"} THEN i0 + 1 ELSE i0,
                             0, 0))

StrToNumber(s) == ParseSigned(s, SkipBlanks(s, 1))

parseFloat(v) ==
    CASE v.t = "num" -> v
      [] v.t = "str" -> StrToNumber(v.v)
      [] OTHER       -> NaN

(***************************************************************************)
(* Constants of xg_inference.js.                                           *)
(***************************************************************************)
GOAL_CENTER == <<RInt(1), Rat(1, 2)>>
GOAL_POSTS  == <<<<RInt(1), Rat(45, 100)>>, <<RInt(1), Rat(55, 100)>>>>

BASE_FEATURES == <<"X", "Y", "distance_to_goal", "angle_to_goal">>
SITUATION_FEATURES ==
    <<"situation_DirectFreekick", "situation_FromCorner", "situation_OpenPlay",
      "situation_Penalty", "situation_SetPiece">>
SHOTTYPE_FEATURES ==
    <<"shotType_Head", "shotType_LeftFoot", "shotType_OtherBodyPart", "shotType_RightFoot">>
INTERACTION_FEATURES ==
    <<"interaction_DirectFreekick_LeftFoot", "interaction_DirectFreekick_RightFoot",
      "interaction_FromCorner_Head", "interaction_FromCorner_LeftFoot",
      "interaction_FromCorner_OtherBodyPart", "interaction_FromCorner_RightFoot",
      "interaction_OpenPlay_Head", "interaction_OpenPlay_LeftFoot",
      "interaction_OpenPlay_OtherBodyPart", "interaction_OpenPlay_RightFoot",
      "interaction_Penalty_LeftFoot", "interaction_Penalty_RightFoot",
      "interaction_SetPiece_Head", "interaction_SetPiece_LeftFoot",
      "interaction_SetPiece_OtherBodyPart", "interaction_SetPiece_RightFoot">>

MODEL_FEATURES ==
    [basic_model     |-> BASE_FEATURES,
     shottype_model  |-> BASE_FEATURES \o SHOTTYPE_FEATURES,
     situation_model |-> BASE_FEATURES \o SITUATION_FEATURES,
     advanced_model  |-> BASE_FEATURES \o SITUATION_FEATURES \o SHOTTYPE_FEATURES
                         \o INTERACTION_FEATURES]

ModelNames == DOMAIN MODEL_FEATURES

VALID_SITUATIONS == {"OpenPlay", "SetPiece", "DirectFreekick", "FromCorner", "Penalty"}
VALID_SHOT_TYPES == {"Head", "RightFoot", "LeftFoot", "OtherBodyPart"}

\* The messages of the errors predict throws.
ERR_MISSING_XY    == "Missing x or y coordinate."
ERR_NOT_NUMERIC   == "x and y must be numeric values."
ERR_SITUATION     == "Invalid situation"
ERR_SHOT_TYPE     == "Invalid shot type"
ERR_NO_KEY        == "Normalisation object must contain an 'is_normalised' key."
ERR_DIMS_REQUIRED == "max_pitch_width and max_pitch_length are required when is_normalised is false."
ERR_DIMS_NUMERIC  == "max_pitch_width and max_pitch_length must be positive numbers."
ERR_DIMS_POSITIVE == "The maximum width and length of the pitch cannot be a negative value."
ERR_RANGE         == "Coordinates have been incorrectly claimed as normalised"
ERR_LOAD          == "InferenceSession.create rejected"
ERR_RUN           == "session.run rejected or its output has no probabilities"

(***************************************************************************)
(* Validation helpers.                                                     *)
(***************************************************************************)
\* Set.prototype.has for a set of strings: false for every non-string.
SetHas(set, v) == v.t = "str" /\ v.v \in set

isValidSituation_NoEmpty(situation) ==
    IsNullish(situation) \/ SetHas(VALID_SITUATIONS, situation)

isValidSituation(situation) ==
    IsNullish(situation) \/ situation = Str("") \/ SetHas(VALID_SITUATIONS, situation)

isValidShotType(shotType) ==
    IsNullish(shotType) \/ shotType = Str("") \/ SetHas(VALID_SHOT_TYPES, shotType)

(***************************************************************************)
(* Normalisation and model selection.                                      *)
(***************************************************************************)
HasOwn(v, key) == v.t = "obj" /\ key \in DOMAIN v.f

\* (v === '' || v == null) ? null : v
EmptyToNull(v) == IF v = Str("") \/ IsNullish(v) THEN Null ELSE v

ChooseModel_Swapped(sit, sht) ==
    IF sit = Null /\ sht = Null      THEN "basic_model"
    ELSE IF sit = Null /\ sht # Null THEN "situation_model"
    ELSE IF sit # Null /\ sht = Null THEN "shottype_model"
    ELSE                                  "advanced_model"

ChooseModel(sit, sht) ==
    IF sit = Null /\ sht = Null      THEN "basic_model"
    ELSE IF sit = Null /\ sht # Null THEN "shottype_model"
    ELSE IF sit # Null /\ sht = Null THEN "situation_model"
    ELSE                                  "advanced_model"

DetError(msg) ==
    [error |-> msg, chosenModel |-> "", x |-> RInt(0), y |-> RInt(0),
     situation |-> Null, shotType |-> Null]

OutOfRange_UpperOnly(x, y) == RLt(RInt(1), x) \/ RLt(RInt(1), y)

\* x < 0 || x > 1 || y < 0 || y > 1
OutOfRange(x, y) ==
    RLt(x, RInt(0)) \/ RLt(RInt(1), x) \/ RLt(y, RInt(0)) \/ RLt(RInt(1), y)

\* The tail of determineModel, from the range check on.
SelectModel(x, y, situation, shotType) ==
    IF OutOfRange(x, y) THEN DetError(ERR_RANGE)
    ELSE LET sit == EmptyToNull(situation)
             sht == EmptyToNull(shotType)
         IN  [error |-> "", chosenModel |-> ChooseModel(sit, sht), x |-> x, y |-> y,
              situation |-> sit, shotType |-> sht]

Divide_Swapped(x, y, situation, shotType, w, l) ==
    IF IsNaN(w) \/ IsNaN(l) THEN DetError(ERR_DIMS_NUMERIC)
    ELSE IF RLe(w.v, RInt(0)) \/ RLe(l.v, RInt(0)) THEN DetError(ERR_DIMS_POSITIVE)
    ELSE SelectModel(RDiv(x, w.v), RDiv(y, l.v), situation, shotType)

\* The is_normalised === false branch once both dimensions are parsed.
Divide(x, y, situation, shotType, w, l) ==
    IF IsNaN(w) \/ IsNaN(l) THEN DetError(ERR_DIMS_NUMERIC)
    ELSE IF RLe(w.v, RInt(0)) \/ RLe(l.v, RInt(0)) THEN DetError(ERR_DIMS_POSITIVE)
    ELSE SelectModel(RDiv(x, l.v), RDiv(y, w.v), situation, shotType)

\* The is_normalised === false branch.
NormaliseRaw(x, y, situation, shotType, maxWidth, maxLength) ==
    IF IsNullish(maxWidth) \/ IsNullish(maxLength) THEN DetError(ERR_DIMS_REQUIRED)
    ELSE Divide(x, y, situation, shotType, parseFloat(maxWidth), parseFloat(maxLength))

determineModel_Falsy(x, y, situation, shotType, normalisation) ==
    IF IsNullish(normalisation) \/ ~HasOwn(normalisation, "is_normalised")
    THEN DetError(ERR_NO_KEY)
    ELSE IF Get(normalisation, "is_normalised") \in {Bool(FALSE), Null, Num(RInt(0))}
    THEN NormaliseRaw(x, y, situation, shotType,
                      Get(normalisation, "max_pitch_width"),
                      Get(normalisation, "max_pitch_length"))
    ELSE SelectModel(x, y, situation, shotType)

\* x and y are numbers here (predict has parsed them and rejected NaN).
determineModel(x, y, situation, shotType, normalisation) ==
    IF IsNullish(normalisation) \/ ~HasOwn(normalisation, "is_normalised")
    THEN DetError(ERR_NO_KEY)
    ELSE IF Get(normalisation, "is_normalised") = Bool(FALSE)
    THEN NormaliseRaw(x, y, situation, shotType,
                      Get(normalisation, "max_pitch_width"),
                      Get(normalisation, "max_pitch_length"))
    ELSE SelectModel(x, y, situation, shotType)

(***************************************************************************)
(* Feature engineering.  An entry of the vector is an exact value, the     *)
(* square root of one, or the arc cosine of a / (sqrt(b) * sqrt(c)) clamped *)
(* to [-1, 1].                                                             *)
(***************************************************************************)
Val(r)        == [k |-> "val",  a |-> r, b |-> RInt(1), c |-> RInt(1)]
Sqrt(r)       == [k |-> "sqrt", a |-> r, b |-> RInt(1), c |-> RInt(1)]
Acos(a, b, c) == [k |-> "acos", a |-> a, b |-> b, c |-> c]

SeqToSet(s) == {s[i] : i \in DOMAIN s}

Sq(r) == RMul(r, r)

AngleFrom_Unguarded(dot, mag1sq, mag2sq) == Acos(dot, mag1sq, mag2sq)

\* dot, mag1 * mag1 and mag2 * mag2 of the vectors to the two posts.
AngleFrom(dot, mag1sq, mag2sq) ==
    IF mag1sq = RInt(0) \/ mag2sq = RInt(0) THEN Val(RInt(0))
    ELSE Acos(dot, mag1sq, mag2sq)

AngleBetween(v1x, v1y, v2x, v2y) ==
    AngleFrom(RAdd(RMul(v1x, v2x), RMul(v1y, v2y)),
              RAdd(Sq(v1x), Sq(v1y)), RAdd(Sq(v2x), Sq(v2y)))

AngleToGoal(x, y) ==
    AngleBetween(RSub(GOAL_POSTS[1][1], x), RSub(GOAL_POSTS[1][2], y),
                 RSub(GOAL_POSTS[2][1], x), RSub(GOAL_POSTS[2][2], y))

DistanceToGoal(x, y) ==
    Sqrt(RAdd(Sq(RSub(x, GOAL_CENTER[1])), Sq(RSub(y, GOAL_CENTER[2]))))

SituationKey_All(situation) ==
    IF situation # Null THEN SeqToSet(SITUATION_FEATURES) ELSE {}

\* if (situation !== null) the key `situation_${situation}`
SituationKey(situation) ==
    IF situation # Null THEN {"situation_" \o situation.v} ELSE {}

\* if (shotType !== null) the key `shotType_${shotType}`
ShotTypeKey(shotType) ==
    IF shotType # Null THEN {"shotType_" \o shotType.v} ELSE {}

InteractionKey_Never(situation, shotType) == {}

\* if (situation !== null && shotType !== null) the key
\* `interaction_${situation}_${shotType}`
InteractionKey(situation, shotType) ==
    IF situation # Null /\ shotType # Null
    THEN {"interaction_" \o situation.v \o "_" \o shotType.v} ELSE {}

InColumnOrder_Reversed(features, featureMap) ==
    [i \in DOMAIN features |-> featureMap[features[Len(features) + 1 - i]]]

\* features.map(f => featureMap[f])
InColumnOrder(features, featureMap) ==
    [i \in DOMAIN features |-> featureMap[features[i]]]

\* situation and shotType are null or a string.  A key is set to 1.0 only
\* when it is `in featureMap`, that is, when it is a name of features.
buildFeatureVector(x, y, situation, shotType, features) ==
    InColumnOrder(features,
        [f \in SeqToSet(features) |->
            IF f = "X" THEN Val(x)
            ELSE IF f = "Y" THEN Val(y)
            ELSE IF f = "distance_to_goal" THEN DistanceToGoal(x, y)
            ELSE IF f = "angle_to_goal" THEN AngleToGoal(x, y)
            ELSE IF f \in SituationKey(situation) \cup ShotTypeKey(shotType)
                          \cup InteractionKey(situation, shotType)
            THEN Val(RInt(1))
            ELSE Val(RInt(0))])

(***************************************************************************)
(* predict up to its first await: the checks, determineModel, the Penalty  *)
(* shortcut and the feature vector.  kind is "throw" (error holds the      *)
(* message), "return" (the Penalty constant) or "await" (getSession is     *)
(* called next).                                                           *)
(***************************************************************************)
NoVector == <<>>

Thrown(msg) ==
    [kind |-> "throw", error |-> msg, chosenModel |-> "", x |-> RInt(0), y |-> RInt(0),
     featureVector |-> NoVector]

IsPenalty_Never(sit) == FALSE

\* sit === 'Penalty'
IsPenalty(sit) == sit = Str("Penalty")

\* if (determined.error)
DeterminedError(determined) == determined.error # ""

\* predict from the destructuring of determineModel's result on.
PredictDetermined(determined) ==
    IF DeterminedError(determined) THEN Thrown(determined.error)
    ELSE IF IsPenalty(determined.situation)
    THEN [kind |-> "return", error |-> "", chosenModel |-> determined.chosenModel,
          x |-> Rat(895, 1000), y |-> Rat(1, 2), featureVector |-> NoVector]
    ELSE [kind |-> "await", error |-> "", chosenModel |-> determined.chosenModel,
          x |-> determined.x, y |-> determined.y,
          featureVector |->
              buildFeatureVector(determined.x, determined.y, determined.situation,
                                 determined.shotType,
                                 MODEL_FEATURES[determined.chosenModel])]

PredictParsed_ShotTypeFirst(px, py, situation, shotType, normalisation) ==
    IF IsNaN(px) \/ IsNaN(py) THEN Thrown(ERR_NOT_NUMERIC)
    ELSE IF ~isValidShotType(shotType) THEN Thrown(ERR_SHOT_TYPE)
    ELSE IF ~isValidSituation(situation) THEN Thrown(ERR_SITUATION)
    ELSE PredictDetermined(determineModel(px.v, py.v, situation, shotType, normalisation))

\* predict once x and y went through parseFloat.
PredictParsed(px, py, situation, shotType, normalisation) ==
    IF IsNaN(px) \/ IsNaN(py) THEN Thrown(ERR_NOT_NUMERIC)
    ELSE IF ~isValidSituation(situation) THEN Thrown(ERR_SITUATION)
    ELSE IF ~isValidShotType(shotType) THEN Thrown(ERR_SHOT_TYPE)
    ELSE PredictDetermined(determineModel(px.v, py.v, situation, shotType, normalisation))

PredictSync(x, y, situation, shotType, normalisation) ==
    IF IsNullish(x) \/ IsNullish(y) THEN Thrown(ERR_MISSING_XY)
    ELSE PredictParsed(parseFloat(x), parseFloat(y), situation, shotType, normalisation)

ToFixed2_Unrounded(p) == p

\* Number.prototype.toFixed(2) followed by parseFloat, for p >= 0: the nearest
\* multiple of 1/100, the larger one on a tie.
ToFixed2(p) == Rat((200 * p.n + p.d) \div (2 * p.d), 100)

(***************************************************************************)
(* frontend/js/heatmap.js: the colour ramp and the sampling of the grid    *)
(* that drawHeatmap does for one pixel.  Arrays are sequences; the         *)
(* JavaScript index i is the sequence index i + 1.                         *)
(***************************************************************************)
PITCH_LENGTH_METERS == 105
PITCH_WIDTH_METERS  == 68
PADDING_METERS      == 3
TOTAL_WIDTH_METERS  == PITCH_LENGTH_METERS + 2 * PADDING_METERS
TOTAL_HEIGHT_METERS == PITCH_WIDTH_METERS + 2 * PADDING_METERS
ASPECT_RATIO        == Rat(TOTAL_WIDTH_METERS, TOTAL_HEIGHT_METERS)

Color(r, g, b, a) == [r |-> r, g |-> g, b |-> b, a |-> a]

colorStops ==
    << [value |-> RInt(0),      color |-> Color(255, 255, 255, 0)],
       [value |-> Rat(1, 100),  color |-> Color(220, 230, 255, 50)],
       [value |-> Rat(1, 10),   color |-> Color(100, 149, 237, 100)],
       [value |-> Rat(3, 10),   color |-> Color(0, 128, 0, 150)],
       [value |-> Rat(1, 2),    color |-> Color(255, 255, 0, 200)],
       [value |-> Rat(7, 10),   color |-> Color(255, 140, 0, 220)],
       [value |-> RInt(1),      color |-> Color(255, 0, 0, 255)] >>

\* Math.floor
Floor(r) == r.n \div r.d

\* Math.round: the nearest integer, the larger one on a tie
Round(r) == Floor(RAdd(r, Rat(1, 2)))

\* Math.min(Math.max(xgValue, 0), 1)
Intensity(xgValue) ==
    IF RLt(xgValue, RInt(0)) THEN RInt(0)
    ELSE IF RLt(RInt(1), xgValue) THEN RInt(1)
    ELSE xgValue

\* lowerStop and upperStop after the for loop of getHeatmapColorRGBA, entered
\* at index i - 1: the first pair of adjacent stops with
\* stop.value <= intensity <= next stop.value, the first and the last stop
\* when the loop ends without a break.
RECURSIVE FindStops(_, _)
FindStops(intensity, i) ==
    IF i >= Len(colorStops)
    THEN [lowerStop |-> colorStops[1], upperStop |-> colorStops[Len(colorStops)]]
    ELSE IF RLe(colorStops[i].value, intensity) /\ RLe(intensity, colorStops[i + 1].value)
    THEN [lowerStop |-> colorStops[i], upperStop |-> colorStops[i + 1]]
    ELSE FindStops(intensity, i + 1)

InterpolationFactor_Zero(intensity, lowerStop, upperStop) == RInt(0)

\* t = (range > 0) ? (intensity - lowerStop.value) / range : 0
InterpolationFactor(intensity, lowerStop, upperStop) ==
    IF RLt(RInt(0), RSub(upperStop.value, lowerStop.value))
    THEN RDiv(RSub(intensity, lowerStop.value), RSub(upperStop.value, lowerStop.value))
    ELSE RInt(0)

\* Math.round(lower + t * (upper - lower))
Channel(lower, upper, t) == Round(RAdd(RInt(lower), RMul(t, RInt(upper - lower))))

\* { r, g, b, a } for the interpolation factor t
ColorBetween(lower, upper, t) ==
    Color(Channel(lower.r, upper.r, t), Channel(lower.g, upper.g, t),
          Channel(lower.b, upper.b, t), Channel(lower.a, upper.a, t))

\* getHeatmapColorRGBA once lowerStop and upperStop are found
ColorOf(intensity, stops) ==
    IF intensity = RInt(0) THEN colorStops[1].color
    ELSE ColorBetween(stops.lowerStop.color, stops.upperStop.color,
                      InterpolationFactor(intensity, stops.lowerStop, stops.upperStop))

getHeatmapColorRGBA(xgValue) ==
    ColorOf(Intensity(xgValue), FindStops(Intensity(xgValue), 1))

\* heatmap[yIndex]?.[xIndex] || 0
ValueAt(heatmap, yIndex, xIndex) ==
    IF yIndex + 1 \in DOMAIN heatmap /\ xIndex + 1 \in DOMAIN heatmap[yIndex + 1]
    THEN heatmap[yIndex + 1][xIndex + 1]
    ELSE RInt(0)

\* cellWidth and cellHeight: coords.length > 1 ? coords[1] - coords[0] : 0.01
CellSize(coords) ==
    IF Len(coords) > 1 THEN RSub(coords[2], coords[1]) ELSE Rat(1, 100)

\* Math.floor(meter / cell), for cell > 0
CellIndex(meter, cell) == Floor(RDiv(meter, cell))

\* meterX = (px / scale) - PADDING_METERS
MeterX(px, scale) == RSub(RDiv(RInt(px), scale), RInt(PADDING_METERS))

\* meterY = PITCH_WIDTH_METERS + PADDING_METERS - (py / scale)
MeterY(py, scale) ==
    RSub(RInt(PITCH_WIDTH_METERS + PADDING_METERS), RDiv(RInt(py), scale))

\* meterX >= 0 && meterX <= PITCH_LENGTH_METERS && meterY >= 0 && meterY <= PITCH_WIDTH_METERS
InPitch(meterX, meterY) ==
    /\ RLe(RInt(0), meterX) /\ RLe(meterX, RInt(PITCH_LENGTH_METERS))
    /\ RLe(RInt(0), meterY) /\ RLe(meterY, RInt(PITCH_WIDTH_METERS))

\* xIndex < x_coords.length - 1 && yIndex < y_coords.length - 1 && y_coords.length > 1
Interpolates(x_coords, y_coords, xIndex, yIndex) ==
    /\ xIndex < Len(x_coords) - 1
    /\ yIndex < Len(y_coords) - 1
    /\ Len(y_coords) > 1

\* (meter - c1) / (c2 - c1), for c1 # c2
Weight(meter, c1, c2) == RDiv(RSub(meter, c1), RSub(c2, c1))

\* a * (1 - w) + b * w
Mix(a, b, w) == RAdd(RMul(a, RSub(RInt(1), w)), RMul(b, w))

\* top, bottom and xgValue of the interpolating branch
Bilinear(heatmap, xIndex, yIndex, xWeight, yWeight) ==
    Mix(Mix(ValueAt(heatmap, yIndex, xIndex), ValueAt(heatmap, yIndex, xIndex + 1), xWeight),
        Mix(ValueAt(heatmap, yIndex + 1, xIndex), ValueAt(heatmap, yIndex + 1, xIndex + 1),
            xWeight),
        yWeight)

\* The locals of one iteration, from the value sampled: the pixel is written
\* only if (xgValue > 0) and is else left as createImageData made it.
Locals(px, py, meterX, meterY, interpolated, xIndex, yIndex, xWeight, yWeight, xgValue) ==
    [px |-> px, py |-> py, meterX |-> meterX, meterY |-> meterY, inPitch |-> TRUE,
     interpolated |-> interpolated, xIndex |-> xIndex, yIndex |-> yIndex,
     xWeight |-> xWeight, yWeight |-> yWeight, xgValue |-> xgValue,
     written |-> RLt(RInt(0), xgValue),
     color |-> IF RLt(RInt(0), xgValue) THEN getHeatmapColorRGBA(xgValue)
               ELSE Color(0, 0, 0, 0)]

\* The interpolating branch once both weights are known.
Weighted(px, py, meterX, meterY, heatmap, xIndex, yIndex, xWeight, yWeight) ==
    Locals(px, py, meterX, meterY, TRUE, xIndex, yIndex, xWeight, yWeight,
           Bilinear(heatmap, xIndex, yIndex, xWeight, yWeight))

\* The body of `if (meterX >= 0 && ...)` once xIndex and yIndex are known;
\* x_coords[xIndex] is the element xIndex + 1 of the sequence.
Sample(px, py, meterX, meterY, x_coords, y_coords, heatmap, xIndex, yIndex) ==
    IF Interpolates(x_coords, y_coords, xIndex, yIndex)
    THEN Weighted(px, py, meterX, meterY, heatmap, xIndex, yIndex,
                  Weight(meterX, x_coords[xIndex + 1], x_coords[xIndex + 2]),
                  Weight(meterY, y_coords[yIndex + 1], y_coords[yIndex + 2]))
    ELSE Locals(px, py, meterX, meterY, FALSE, xIndex, yIndex, RInt(0), RInt(0),
                ValueAt(heatmap, yIndex, xIndex))

\* One iteration of drawHeatmap's loops once meterX and meterY are known: a
\* pixel outside the pitch is neither sampled nor written.
PixelAt(px, py, meterX, meterY, x_coords, y_coords, heatmap) ==
    IF InPitch(meterX, meterY)
    THEN Sample(px, py, meterX, meterY, x_coords, y_coords, heatmap,
                CellIndex(meterX, CellSize(x_coords)), CellIndex(meterY, CellSize(y_coords)))
    ELSE [px |-> px, py |-> py, meterX |-> meterX, meterY |-> meterY, inPitch |-> FALSE]

\* One iteration of drawHeatmap's loops, for the pixel (px, py).
DrawnPixel(px, py, scale, data) ==
    PixelAt(px, py, MeterX(px, scale), MeterY(py, scale),
            data.grid_definition.x_coords, data.grid_definition.y_coords, data.heatmap)

(***************************************************************************)
(* State.                                                                  *)
(***************************************************************************)
NCalls == 2

Calls == 1 .. NCalls

VARIABLES
    calls,      \* calls[c]: the state of the c-th invocation of predict
    cache,      \* _sessionCache: model name -> session, for the names it has
    created     \* created[m]: InferenceSession.create invocations for m so far

\* The heatmap page (frontend/js/heatmap.js), a document of its own.
VARIABLES
    heatmapData,    \* heatmapData: the fetched grid, NoData while it is null
    canvas,         \* canvas.width, canvas.height and scale
    loop,           \* drawHeatmap's loop counters px and py while it runs
    pixel,          \* the locals of the last iteration of drawHeatmap's loop
    shade,          \* the argument and the result of a call of getHeatmapColorRGBA
    loadButton,     \* loadButton.disabled
    fetches,        \* fetches[o]: calls of loadHeatmapData awaiting their answer,
                    \* by what called them (the button, DOMContentLoaded)
    domLoaded       \* the document's DOMContentLoaded event has been dispatched

\* The home page (the script of frontend/index.html, the second half of
\* frontend/js/plotter.js, with frontend/js/health_check.js), a document of its own.
VARIABLES
    home            \* the page script's variables and the elements it writes

\* The match plotter (the first half of frontend/js/plotter.js), a document of
\* its own.
VARIABLES
    currentMatch,   \* currentMatch: Null or the match being edited
    selectedShot,   \* selectedShot: Null or a copy of a shot with its index
    matches,        \* the object store 'matches' of the IndexedDB database
    pending,        \* the asynchronous operations awaiting their answer
    started,        \* how many asynchronous operations the user has started
    thrown          \* the operation that threw the last uncaught TypeError, if any

predictVars == <<calls, cache, created>>
heatVars    == <<heatmapData, canvas, loop, pixel, shade, loadButton, fetches, domLoaded>>
plotterVars == <<currentMatch, selectedShot, matches, pending, started, thrown>>
pageVars    == <<home, plotterVars>>

vars == <<calls, cache, created, heatmapData, canvas, loop, pixel, shade, loadButton,
         fetches, domLoaded, home, currentMatch, selectedShot, matches, pending, started,
         thrown>>

NoSession == <<>>
NoResult  == <<>>
NoArgs    == [x |-> Null, y |-> Null, situation |-> Null, shotType |-> Null,
              normalisation |-> Null]

Pending       == [status |-> "pending",  error |-> "",  result |-> NoResult]
Rejected(msg) == [status |-> "rejected", error |-> msg, result |-> NoResult]
Resolved(res) == [status |-> "resolved", error |-> "",  result |-> res]

IdleCall ==
    [pc |-> "idle", args |-> NoArgs, chosenModel |-> "", normX |-> RInt(0),
     normY |-> RInt(0), featureVector |-> NoVector, session |-> NoSession,
     loads |-> 0, calledGetSession |-> FALSE, calledRun |-> FALSE, raw |-> RInt(0),
     afterFailure |-> FALSE, outcome |-> Pending]

\* The canvas element before setupCanvas has run: the default size, scale
\* not yet assigned.
NoCanvas == [width |-> 300, height |-> 150, scale |-> Undefined]

\* No call of loadHeatmapData awaits the answer of its fetch.
NoFetches == [o \in {"click", "DOMContentLoaded"} |-> 0]

\* drawHeatmap is not running.
Idle == [running |-> FALSE, px |-> 0, py |-> 0]

\* No iteration of drawHeatmap's loops has run since the last redraw began.
NoPixel == [inPitch |-> FALSE]

\* getHeatmapColorRGBA has not been called on its own.
NoShade == [called |-> FALSE]

\* The home page as its script leaves it when it has run: no listener of
\* DOMContentLoaded has run, the listeners of enablePageInteractions are not
\* added yet, and the elements are as frontend/index.html declares them.
NoHome ==
    [ran |-> {}, overlay |-> [hidden |-> FALSE], listening |-> FALSE,
     isBackendHealthy |-> FALSE,
     situationSelect |-> [value |-> "", disabled |-> FALSE],
     shotTypeSelect |-> [value |-> "", disabled |-> FALSE],
     currentPoint |-> Null, targetXG |-> RInt(0),
     xgValue |-> [textContent |-> "Click on the pitch to plot a point.",
                  number |-> RInt(0)],
     continued |-> {}]

\* The matches the object store holds when the page opens: IndexedDB keeps
\* them from one visit to the next.
StoredMatches ==
    (1 :> [id |-> 1, shots |-> <<[ref |-> 1, x |-> 90, situation |-> "", xg |-> Rat(1, 10),
                                  index |-> 0],
                                 [ref |-> 2, x |-> 20, situation |-> "", xg |-> Rat(3, 10),
                                  index |-> 1]>>])
    @@ (2 :> [id |-> 2, shots |-> <<>>])

Init ==
    /\ calls = [c \in Calls |-> IdleCall]
    /\ cache = <<>>
    /\ created = [m \in ModelNames |-> 0]
    /\ heatmapData = Null
    /\ canvas = NoCanvas
    /\ loop = Idle
    /\ pixel = NoPixel
    /\ shade = NoShade
    /\ loadButton = [disabled |-> FALSE]
    /\ fetches = NoFetches
    /\ domLoaded = FALSE
    /\ home = NoHome
    /\ currentMatch = Null
    /\ selectedShot = Null
    /\ matches = StoredMatches
    /\ pending = {}
    /\ started = 0
    /\ thrown = ""

(***************************************************************************)
(* getSession and the session cache.                                       *)
(***************************************************************************)
\* _sessionCache.has(modelName)
CacheHas(c, modelName) == modelName \in DOMAIN c

CacheSet_AllNames(c, modelName, session) == [m \in ModelNames |-> session]

\* _sessionCache.set(modelName, session)
CacheSet(c, modelName, session) == (modelName :> session) @@ c

CacheAfterReject_Poisoned(c, modelName) == (modelName :> NoSession) @@ c

\* The cache after `await ort.InferenceSession.create(modelPath)` has thrown:
\* the set that follows the await is not reached.
CacheAfterReject(c, modelName) == c

(***************************************************************************)
(* Actions: one per run-to-completion step of a predict call.              *)
(***************************************************************************)
\* predict(x, y, situation, shotType, normalisation) is invoked and runs to
\* its first await (inside getSession on a cache miss), its throw or its
\* return.
\* History: some call's load of modelName has been rejected.
LoadFailed(modelName) ==
    \E d \in Calls : /\ calls[d].chosenModel = modelName
                     /\ calls[d].outcome = Rejected(ERR_LOAD)

PredictStep(c, a, r) ==
    CASE r.kind = "throw" ->
           /\ calls' = [calls EXCEPT ![c] = [calls[c] EXCEPT
                           !.pc = "done", !.args = a, !.outcome = Rejected(r.error)]]
           /\ UNCHANGED <<cache, created>>
      [] r.kind = "return" ->
           /\ calls' = [calls EXCEPT ![c] = [calls[c] EXCEPT
                           !.pc = "done", !.args = a, !.chosenModel = r.chosenModel,
                           !.outcome = Resolved([xG |-> Rat(76, 100), x |-> r.x, y |-> r.y,
                                                chosenModel |-> r.chosenModel])]]
           /\ UNCHANGED <<cache, created>>
      [] r.kind = "await" /\ CacheHas(cache, r.chosenModel) ->
           /\ calls' = [calls EXCEPT ![c] = [calls[c] EXCEPT
                           !.pc = "gotSession", !.args = a,
                           !.chosenModel = r.chosenModel, !.normX = r.x, !.normY = r.y,
                           !.featureVector = r.featureVector,
                           !.calledGetSession = TRUE,
                           !.session = cache[r.chosenModel]]]
           /\ UNCHANGED <<cache, created>>
      [] r.kind = "await" /\ ~CacheHas(cache, r.chosenModel) ->
           /\ calls' = [calls EXCEPT ![c] = [calls[c] EXCEPT
                           !.pc = "creating", !.args = a,
                           !.chosenModel = r.chosenModel, !.normX = r.x, !.normY = r.y,
                           !.featureVector = r.featureVector,
                           !.calledGetSession = TRUE, !.loads = @ + 1,
                           !.afterFailure = LoadFailed(r.chosenModel),
                           !.session = <<r.chosenModel, created[r.chosenModel] + 1>>]]
           /\ created' = [created EXCEPT ![r.chosenModel] = @ + 1]
           /\ UNCHANGED cache

Predict(c, a) ==
    /\ calls[c].pc = "idle"
    /\ PredictStep(c, a, PredictSync(a.x, a.y, a.situation, a.shotType, a.normalisation))
    /\ UNCHANGED <<heatVars, pageVars>>

\* InferenceSession.create resolves: getSession stores the session and returns it.
CreateResolves(c) ==
    /\ calls[c].pc = "creating"
    /\ cache' = CacheSet(cache, calls[c].chosenModel, calls[c].session)
    /\ calls' = [calls EXCEPT ![c].pc = "gotSession"]
    /\ UNCHANGED <<created, heatVars, pageVars>>

\* InferenceSession.create rejects: getSession and predict reject in turn.
CreateRejects(c) ==
    /\ calls[c].pc = "creating"
    /\ cache' = CacheAfterReject(cache, calls[c].chosenModel)
    /\ calls' = [calls EXCEPT ![c] = [calls[c] EXCEPT
                    !.pc = "done", !.session = NoSession,
                    !.outcome = Rejected(ERR_LOAD)]]
    /\ UNCHANGED <<created, heatVars, pageVars>>

\* predict resumes after `await getSession(...)`, builds the tensor and calls
\* session.run.
RunStarts(c) ==
    /\ calls[c].pc = "gotSession"
    /\ calls' = [calls EXCEPT ![c] = [calls[c] EXCEPT !.pc = "running",
                                                      !.calledRun = TRUE]]
    /\ UNCHANGED <<cache, created, heatVars, pageVars>>

\* return { xG, x: normX, y: normY, chosenModel } with xG rounded from raw
RunResult(raw, normX, normY, chosenModel) ==
    Resolved([xG |-> ToFixed2(raw), x |-> normX, y |-> normY,
              chosenModel |-> chosenModel])

RunFailure_Partial(normX, normY, chosenModel) ==
    Resolved([x |-> normX, y |-> normY, chosenModel |-> chosenModel])

\* predict has no try/catch: a rejection of session.run, or a throw while
\* reading results[probsKey].data[1], rejects the call.
RunFailure(normX, normY, chosenModel) == Rejected(ERR_RUN)

\* session.run resolves with probabilities whose index 1 is raw.
RunResolves(c, raw) ==
    /\ calls[c].pc = "running"
    /\ calls' = [calls EXCEPT ![c] = [calls[c] EXCEPT
                    !.pc = "done", !.raw = raw,
                    !.outcome = RunResult(raw, calls[c].normX, calls[c].normY,
                                          calls[c].chosenModel)]]
    /\ UNCHANGED <<cache, created, heatVars, pageVars>>

\* session.run rejects, or its results hold no usable probabilities entry and
\* reading data[1] throws.
RunRejects(c) ==
    /\ calls[c].pc = "running"
    /\ calls' = [calls EXCEPT ![c] = [calls[c] EXCEPT
                    !.pc = "done",
                    !.outcome = RunFailure(calls[c].normX, calls[c].normY,
                                           calls[c].chosenModel)]]
    /\ UNCHANGED <<cache, created, heatVars, pageVars>>

(***************************************************************************)
(* Actions of the heatmap page.  drawHeatmap runs to completion once it    *)
(* has started; each iteration of its loops is a step.                     *)
(***************************************************************************)
\* canvas.width, canvas.height (an integer attribute) and scale as setupCanvas
\* assigns them.
SizedCanvas(containerWidth) ==
    [width  |-> containerWidth,
     height |-> Floor(RDiv(RInt(containerWidth), ASPECT_RATIO)),
     scale  |-> Rat(containerWidth, TOTAL_WIDTH_METERS)]

\* drawComplete calls drawHeatmap, which returns at once if (!heatmapData)
\* and else enters its loops at py = 0, px = 0.
StartLoop(data, cv) ==
    IF data = Null \/ cv.width = 0 \/ cv.height = 0 THEN Idle
    ELSE [running |-> TRUE, px |-> 0, py |-> 0]

\* px++ of the inner loop, py++ of the outer one, or the end of both.
NextPixel(l, cv) ==
    IF l.px + 1 < cv.width THEN [l EXCEPT !.px = @ + 1]
    ELSE IF l.py + 1 < cv.height THEN [running |-> TRUE, px |-> 0, py |-> l.py + 1]
    ELSE Idle

\* A window resize: setupCanvas sizes the canvas and redraws.
SetupCanvas(containerWidth) ==
    /\ ~loop.running
    /\ canvas' = SizedCanvas(containerWidth)
    /\ loop' = StartLoop(heatmapData, SizedCanvas(containerWidth))
    /\ pixel' = NoPixel
    /\ UNCHANGED <<heatmapData, shade, loadButton, fetches, domLoaded, predictVars, pageVars>>

\* loadHeatmapData up to its await, called by `origin`: the button is disabled
\* and the fetch goes out.
LoadStarted(origin) ==
    /\ loadButton' = [disabled |-> TRUE]
    /\ fetches' = [fetches EXCEPT ![origin] = @ + 1]

\* The document's DOMContentLoaded listener: setupCanvas(); loadHeatmapData().
DOMContentLoaded(containerWidth) ==
    /\ ~domLoaded
    /\ ~loop.running
    /\ domLoaded' = TRUE
    /\ canvas' = SizedCanvas(containerWidth)
    /\ loop' = StartLoop(heatmapData, SizedCanvas(containerWidth))
    /\ pixel' = NoPixel
    /\ LoadStarted("DOMContentLoaded")
    /\ UNCHANGED <<heatmapData, shade, predictVars, pageVars>>

\* A click on the load button, which a disabled button does not deliver:
\* loadHeatmapData().  The listener is registered when the script runs,
\* before DOMContentLoaded.
LoadClicked ==
    /\ ~loadButton.disabled
    /\ ~loop.running
    /\ LoadStarted("click")
    /\ UNCHANGED <<heatmapData, canvas, loop, pixel, shade, domLoaded, predictVars, pageVars>>

\* The fetch of a call of loadHeatmapData has answered with the grid `data`:
\* heatmapData = await response.json(); drawComplete(); and the finally
\* block enables the button.  The answer is taken to arrive once the canvas
\* has been set up.
HeatmapLoaded(origin, data) ==
    /\ ~loop.running
    /\ canvas # NoCanvas
    /\ fetches[origin] > 0
    /\ fetches' = [fetches EXCEPT ![origin] = @ - 1]
    /\ heatmapData' = data
    /\ loop' = StartLoop(data, canvas)
    /\ pixel' = NoPixel
    /\ loadButton' = [disabled |-> FALSE]
    /\ UNCHANGED <<canvas, shade, domLoaded, predictVars, pageVars>>

\* The fetch failed or answered with an error status.  loadHeatmapData's
\* catch: heatmapData = null; drawComplete(); and the finally block enables
\* the button.
HeatmapLoadFailed(origin) ==
    /\ ~loop.running
    /\ canvas # NoCanvas
    /\ fetches[origin] > 0
    /\ fetches' = [fetches EXCEPT ![origin] = @ - 1]
    /\ heatmapData' = Null
    /\ loop' = StartLoop(Null, canvas)
    /\ pixel' = NoPixel
    /\ loadButton' = [disabled |-> FALSE]
    /\ UNCHANGED <<canvas, shade, domLoaded, predictVars, pageVars>>

\* One iteration of drawHeatmap's loops.
DrawPixel ==
    /\ loop.running
    /\ pixel' = DrawnPixel(loop.px, loop.py, canvas.scale, heatmapData)
    /\ loop' = NextPixel(loop, canvas)
    /\ UNCHANGED <<heatmapData, canvas, shade, loadButton, fetches, domLoaded, predictVars, pageVars>>

\* getHeatmapColorRGBA(xgValue), called on its own.
GetColor(xgValue) ==
    /\ shade' = [called |-> TRUE, xgValue |-> xgValue,
                 color |-> getHeatmapColorRGBA(xgValue)]
    /\ UNCHANGED <<heatmapData, canvas, loop, pixel, loadButton, fetches, domLoaded,
                   predictVars, pageVars>>

(***************************************************************************)
(* Inputs.                                                                 *)
(***************************************************************************)
Args(x, y, situation, shotType, normalisation) ==
    [x |-> x, y |-> y, situation |-> situation, shotType |-> shotType,
     normalisation |-> normalisation]

Normalised == Obj("is_normalised" :> Bool(TRUE))

Raw(w, l) ==
    Obj(("is_normalised" :> Bool(FALSE)) @@ ("max_pitch_width" :> w)
        @@ ("max_pitch_length" :> l))

\* Index 1 of the probabilities a session.run may deliver.
RawProbs == {Rat(1234, 10000), Rat(765, 1000)}

\* Arguments of the concurrent calls: every variant, the Penalty shortcut and a
\* call that fails validation.
ConcurrentArgs ==
    {Args(Num(Rat(1, 2)), Num(Rat(1, 2)), sit, sht, Normalised) :
        sit \in {Null, Str("OpenPlay"), Str("Penalty")}, sht \in {Null, Str("Head")}}
    \cup {Args(Str(<<"a", "b", "c">>), Num(Rat(1, 2)), Null, Null, Normalised)}

XValues ==
    {Null, NaN, Bool(TRUE),
     Num(RInt(0)), Num(Rat(1, 2)), Num(RInt(1)), Num(Rat(3, 2)), Num(Rat(189, 2)),
     Str(<<"0", ".", "5">>), Str(<<"0", ".", "5", "a", "b", "c">>),
     Str(<<"a", "b", "c">>), Str(<<>>)}

YValues ==
    {Undefined, Num(Rat(1, 2)), Num(Rat(-1, 10)), Num(RInt(34)),
     Num(Rat(45, 100)), Num(Rat(55, 100)),
     Str(<<" ", "0", ".", "5">>), Str(<<"y">>)}

SituationValues ==
    {Null, Undefined, Str(""), Str("Bogus")} \cup {Str(s) : s \in VALID_SITUATIONS}

ShotTypeValues ==
    {Null, Str(""), Str("Volley")} \cup {Str(s) : s \in VALID_SHOT_TYPES}

WidthValues ==
    {Undefined, Null, Num(RInt(68)), Num(RInt(0)), Num(RInt(-68)),
     Str(<<"6", "8">>), Str(<<"6", "8", "m">>), Str(<<"w", "i", "d", "e">>)}

LengthValues ==
    {Undefined, Num(RInt(105)), Num(RInt(0)),
     Str(<<"1", "0", "5", "m">>), Str(<<"l", "o", "n", "g">>)}

NormalisationValues ==
    {Null, Undefined, Obj(<<>>), Normalised,
     Obj("max_pitch_width" :> Num(RInt(68))),
     Obj("is_normalised" :> Null),
     Obj("is_normalised" :> Num(RInt(0))),
     Obj("is_normalised" :> Str("false")),
     Obj(("is_normalised" :> Bool(TRUE)) @@ ("max_pitch_width" :> Num(RInt(-68)))),
     Obj(("is_normalised" :> Num(RInt(0))) @@ ("max_pitch_width" :> Num(RInt(68)))
         @@ ("max_pitch_length" :> Num(RInt(105))))}
    \cup {Raw(w, Num(RInt(105))) : w \in WidthValues}
    \cup {Raw(Num(RInt(68)), l) : l \in LengthValues}
    \cup {Raw(Undefined, Str(<<"l", "o", "n", "g">>)),
          Raw(Str(<<"w", "i", "d", "e">>), Num(RInt(0)))}

(***************************************************************************)
(* Spec: NCalls predict calls running concurrently on the one event loop.  *)
(***************************************************************************)
Next ==
    \E c \in Calls :
        \/ \E a \in ConcurrentArgs : Predict(c, a)
        \/ CreateResolves(c)
        \/ CreateRejects(c)
        \/ RunStarts(c)
        \/ \E raw \in RawProbs : RunResolves(c, raw)
        \/ RunRejects(c)

Spec == Init /\ [][Next]_vars

(***************************************************************************)
(* SpecV: a single predict call over the whole range of argument values.   *)
(***************************************************************************)
NextV ==
    \/ /\ calls[1].pc = "idle"
       /\ \E x \in XValues, y \in YValues, sit \in SituationValues,
             sht \in ShotTypeValues, n \in NormalisationValues :
               Predict(1, Args(x, y, sit, sht, n))
    \/ CreateResolves(1)
    \/ CreateRejects(1)
    \/ RunStarts(1)
    \/ \E raw \in RawProbs : RunResolves(1, raw)
    \/ RunRejects(1)

SpecV == Init /\ [][NextV]_vars

(***************************************************************************)
(* SpecH: the heatmap page, redrawn for every grid and container width.    *)
(***************************************************************************)
\* pitchContainer.clientWidth: 1/3 and 2 pixels per metre.
ContainerWidths == {37, 222}

\* The n coordinates first, first + step, ...
Uniform(first, step, n) == [i \in 1 .. n |-> RAdd(first, RMul(RInt(i - 1), step))]

\* heatmap[y_index][x_index] of the responses: five rows of six values.
GridValues ==
    << <<RInt(0),     Rat(1, 5),   Rat(1, 100), Rat(1, 10), Rat(3, 10), Rat(1, 2)>>,
       <<Rat(2, 5),   Rat(3, 5),   Rat(1, 10),  Rat(3, 10), Rat(1, 2),  Rat(7, 10)>>,
       <<Rat(1, 10),  Rat(3, 10),  Rat(1, 2),   Rat(7, 10), RInt(1),    RInt(1)>>,
       <<Rat(1, 100), Rat(1, 10),  Rat(3, 10),  Rat(1, 2),  Rat(7, 10), Rat(9, 10)>>,
       <<RInt(0),     Rat(1, 100), Rat(1, 10),  Rat(1, 5),  Rat(2, 5),  Rat(3, 5)>> >>

\* The bodies /predict/grid may answer with for max_length = 105 and
\* max_width = 68: a grid over the whole pitch, a grid over the attacking half
\* (x_coords 0.5 ... 1.0 scaled by 105, as the API page shows them), a grid of
\* one point, and a grid without values.
HeatmapResponses ==
    {[grid_definition |-> [x_coords |-> Uniform(RInt(0), RInt(21), 6),
                           y_coords |-> Uniform(RInt(0), RInt(17), 5)],
      heatmap |-> GridValues],
     [grid_definition |-> [x_coords |-> Uniform(Rat(105, 2), Rat(21, 2), 6),
                           y_coords |-> Uniform(RInt(0), RInt(17), 5)],
      heatmap |-> GridValues],
     [grid_definition |-> [x_coords |-> <<RInt(0)>>, y_coords |-> <<RInt(0)>>],
      heatmap |-> <<<<Rat(1, 2)>>>>],
     [grid_definition |-> [x_coords |-> Uniform(RInt(0), RInt(21), 6),
                           y_coords |-> Uniform(RInt(0), RInt(17), 5)],
      heatmap |-> <<>>]}

NextH ==
    \/ \E w \in ContainerWidths : DOMContentLoaded(w)
    \/ \E w \in ContainerWidths : SetupCanvas(w)
    \/ \E data \in HeatmapResponses : HeatmapLoaded("DOMContentLoaded", data)
    \/ HeatmapLoadFailed("DOMContentLoaded")
    \/ DrawPixel

SpecH == Init /\ [][NextH]_vars

(***************************************************************************)
(* SpecL: the heatmap page with its load button, on a canvas of a few      *)
(* pixels: clicks, the DOMContentLoaded event, resizes and the answers of  *)
(* the fetches in any order the listeners allow.                           *)
(***************************************************************************)
PageWidths == {3}

NextL ==
    \/ LoadClicked
    \/ \E w \in PageWidths : DOMContentLoaded(w)
    \/ \E w \in PageWidths : SetupCanvas(w)
    \/ \E o \in DOMAIN fetches, data \in HeatmapResponses : HeatmapLoaded(o, data)
    \/ \E o \in DOMAIN fetches : HeatmapLoadFailed(o)
    \/ DrawPixel

SpecL == Init /\ [][NextL]_vars

(***************************************************************************)
(* SpecC: getHeatmapColorRGBA applied to values below, in and above [0,1]: *)
(* every multiple of 1/200 from -0.1 to 1.1, the stop values among them.   *)
(***************************************************************************)
ShadeValues == {Rat(k, 200) : k \in -20 .. 220}

NextC == \E xgValue \in ShadeValues : GetColor(xgValue)

SpecC == Init /\ [][NextC]_vars

(***************************************************************************)
(* The home page: the listeners of DOMContentLoaded, the handlers of the   *)
(* canvas and of the two selects, and callXGPrediction with the part of    *)
(* it that runs after `await XG_INFERENCE.predict`.  Clicks arrive in      *)
(* metres, as handleCanvasClick has converted them, and the animations of  *)
(* the dot and of the number have reached their targets before the next    *)
(* event is handled.                                                       *)
(***************************************************************************)
\* The scripts that add a listener of the document's DOMContentLoaded event:
\* the page script and health_check.js.  The event runs the two listeners in
\* the order the page's script elements made the scripts run.
Listeners == {"page", "health_check"}

\* { x: PENALTY_SPOT_RIGHT_X, y: PENALTY_SPOT_Y }
PenaltySpot == [x |-> RInt(PITCH_LENGTH_METERS - 11), y |-> Rat(PITCH_WIDTH_METERS, 2)]

\* function enablePageInteractions()
enablePageInteractions(h) ==
    [h EXCEPT !.listening = TRUE, !.situationSelect.disabled = FALSE,
              !.shotTypeSelect.disabled = FALSE, !.isBackendHealthy = TRUE]

\* function disablePageInteractions()
disablePageInteractions(h) ==
    [h EXCEPT !.listening = FALSE, !.situationSelect.disabled = TRUE,
              !.shotTypeSelect.disabled = TRUE, !.isBackendHealthy = FALSE]

\* The page script's listener of DOMContentLoaded.
PageLoaded ==
    /\ "page" \notin home.ran
    /\ home' = [disablePageInteractions(
                    [home EXCEPT !.situationSelect.value = "",
                                 !.shotTypeSelect.value = ""])
                  EXCEPT !.ran = @ \cup {"page"}, !.targetXG = RInt(0),
                         !.xgValue = [textContent |-> "X.XX", number |-> RInt(0)]]
    /\ UNCHANGED <<predictVars, heatVars, plotterVars>>

\* The listener of DOMContentLoaded of health_check.js: the overlay is hidden
\* and dispatchEvent runs the page script's listener of 'backendHealthy',
\* enablePageInteractions, before it returns.
HealthChecked ==
    /\ "health_check" \notin home.ran
    /\ home' = [enablePageInteractions(home)
                  EXCEPT !.ran = @ \cup {"health_check"}, !.overlay.hidden = TRUE]
    /\ UNCHANGED <<predictVars, heatVars, plotterVars>>

\* The promise of the c-th request has settled and callXGPrediction has not
\* resumed yet.
Settling(c) == calls[c].pc = "done" /\ c \notin home.continued

\* The document has dispatched DOMContentLoaded to both listeners, and no
\* settled promise waits for callXGPrediction to resume: the next event is
\* handled.
Quiet == home.ran = Listeners /\ \A c \in Calls : ~Settling(c)

\* callXGPrediction(x, y) up to its await: the c-th request of the page is the
\* c-th call of predict.
callXGPrediction(c, x, y, h) ==
    /\ calls[c].pc = "idle"
    /\ \A d \in 1 .. c - 1 : calls[d].pc # "idle"
    /\ LET a == Args(Num(x), Num(y),
                     IF h.situationSelect.value = "" THEN Null
                     ELSE Str(h.situationSelect.value),
                     IF h.shotTypeSelect.value = "" THEN Null
                     ELSE Str(h.shotTypeSelect.value),
                     Raw(Num(RInt(68)), Num(RInt(105))))
       IN PredictStep(c, a, PredictSync(a.x, a.y, a.situation, a.shotType,
                                        a.normalisation))
    /\ home' = h
    /\ UNCHANGED <<heatVars, plotterVars>>

\* handleCanvasClick for a click at (metersX, metersY) of the field of play.
handleCanvasClick(c, metersX, metersY) ==
    /\ Quiet /\ home.listening
    /\ callXGPrediction(c, metersX, metersY,
          [(IF /\ home.situationSelect.value = "Penalty"
               /\ RLt(RInt(1), RAdd(Sq(RSub(metersX, PenaltySpot.x)),
                                    Sq(RSub(metersY, PenaltySpot.y))))
            THEN [home EXCEPT !.situationSelect.value = "",
                              !.shotTypeSelect.disabled = FALSE]
            ELSE home)
           EXCEPT !.currentPoint = [x |-> metersX, y |-> metersY]])

\* handleSituationChange after the user has chosen value in the situation
\* select: Penalty plots the penalty spot and asks for its prediction, any
\* other value asks again for the plotted point, if there is one.
handleSituationChange(c, value) ==
    /\ Quiet /\ home.listening /\ ~home.situationSelect.disabled
    /\ value # home.situationSelect.value
    /\ IF value = "Penalty"
       THEN callXGPrediction(c, PenaltySpot.x, PenaltySpot.y,
               [home EXCEPT !.situationSelect.value = value,
                            !.currentPoint = PenaltySpot,
                            !.shotTypeSelect = [value |-> "", disabled |-> TRUE]])
       ELSE IF home.currentPoint # Null
       THEN callXGPrediction(c, home.currentPoint.x, home.currentPoint.y,
               [home EXCEPT !.situationSelect.value = value,
                            !.shotTypeSelect.disabled = FALSE])
       ELSE /\ home' = [home EXCEPT !.situationSelect.value = value,
                                    !.shotTypeSelect.disabled = FALSE]
            /\ UNCHANGED <<predictVars, heatVars, plotterVars>>

\* updateXGPrediction as the change listener of the shot type select, after
\* the user has chosen value.
updateXGPrediction(c, value) ==
    /\ Quiet /\ home.listening /\ ~home.shotTypeSelect.disabled
    /\ value # home.shotTypeSelect.value
    /\ IF home.currentPoint # Null
       THEN callXGPrediction(c, home.currentPoint.x, home.currentPoint.y,
               [home EXCEPT !.shotTypeSelect.value = value])
       ELSE /\ home' = [home EXCEPT !.shotTypeSelect.value = value]
            /\ UNCHANGED <<predictVars, heatVars, plotterVars>>

\* callXGPrediction resumes after its await: with the result, or in its catch.
PredictionSettled(c) ==
    /\ Settling(c)
    /\ home' = IF calls[c].outcome.status = "resolved"
               THEN [home EXCEPT !.continued = @ \cup {c},
                                 !.targetXG = calls[c].outcome.result.xG,
                                 !.xgValue = [textContent |-> "toFixed(2)",
                                              number |-> calls[c].outcome.result.xG]]
               ELSE [home EXCEPT !.continued = @ \cup {c},
                                 !.targetXG = RInt(0),
                                 !.xgValue = [textContent |-> "Error",
                                              number |-> RInt(0)]]
    /\ UNCHANGED <<predictVars, heatVars, plotterVars>>

(***************************************************************************)
(* SpecG: the home page from the moment its scripts have run.  A settled   *)
(* promise resumes callXGPrediction before any other event is handled.     *)
(***************************************************************************)
\* Clicks half a metre from the penalty spot and ten metres from it.
ClickPoints == {<<Rat(189, 2), RInt(34)>>, <<RInt(84), RInt(34)>>}

NextG ==
    \/ PageLoaded
    \/ HealthChecked
    \/ \E c \in Calls : PredictionSettled(c)
    \/ \E c \in Calls, p \in ClickPoints : handleCanvasClick(c, p[1], p[2])
    \/ \E c \in Calls, value \in {"", "OpenPlay", "Penalty"} :
          handleSituationChange(c, value)
    \/ \E c \in Calls, value \in {"", "Head"} : updateXGPrediction(c, value)
    \/ \E c \in Calls : Quiet /\ CreateResolves(c)
    \/ \E c \in Calls : Quiet /\ CreateRejects(c)
    \/ \E c \in Calls : Quiet /\ RunStarts(c)
    \/ \E c \in Calls, raw \in RawProbs : Quiet /\ RunResolves(c, raw)
    \/ \E c \in Calls : Quiet /\ RunRejects(c)

SpecG == Init /\ [][NextG]_vars

(***************************************************************************)
(* The match plotter.  A shot keeps its x, situation, xg and index; its y, *)
(* shotType and team are read and written in the same statements and are   *)
(* left out.  ref stands for the identity of the shot: the copies of a     *)
(* shot in selectedShot, in the object store and in a loaded match carry   *)
(* the ref of the shot they were made from.  The page has opened its       *)
(* database, which holds the matches of earlier visits; the user plots,    *)
(* selects, edits and deletes shots and loads or resets the match, and     *)
(* neither saves match details nor deletes a match.                        *)
(***************************************************************************)
MaxPending == 2
MaxStarted == 3

Shot(ref, x, situation, xg, index) ==
    [ref |-> ref, x |-> x, situation |-> situation, xg |-> xg, index |-> index]

\* An operation between its asynchronous call and the answer: a prediction
\* for a new shot ("add"), for the repositioned selection ("move") or for
\* the edited selection ("save"), or the get of handleLoadMatch ("load").
\* match and ref are the match and the shot it was started for; result is
\* what the get of a load reads, in the order of the transactions.
Op(kind, match, ref, x, situation, result) ==
    [kind |-> kind, match |-> match, ref |-> ref, x |-> x,
     situation |-> situation, result |-> result]

\* The identity of the next object literal `newShot`.
Refs ==
    UNION {{matches[m].shots[i].ref : i \in DOMAIN matches[m].shots} :
              m \in DOMAIN matches}
    \cup (IF currentMatch = Null THEN {}
          ELSE {currentMatch.shots[i].ref : i \in DOMAIN currentMatch.shots})
    \cup (IF selectedShot = Null THEN {} ELSE {selectedShot.ref})
    \cup {op.ref : op \in pending}
NewRef == 1 + CHOOSE r \in Refs \cup {0} : \A q \in Refs : q <= r

\* updateMatchInDB(): objectStore.put(currentMatch), for a match with an id.
updateMatchInDB(store, match) ==
    IF match = Null \/ match.id = 0 THEN store ELSE (match.id :> match) @@ store

\* shots.splice(index, 1) followed by the forEach that re-indexes.
SpliceAndReindex(shots, index) ==
    LET kept == SelectSeq([i \in DOMAIN shots |-> [shots[i] EXCEPT !.index = i - 1]],
                          LAMBDA s : s.index # index)
    IN [i \in DOMAIN kept |-> [kept[i] EXCEPT !.index = i - 1]]

\* An asynchronous operation starts.
Start(op) ==
    /\ Cardinality(pending) < MaxPending
    /\ started < MaxStarted
    /\ pending' = pending \cup {op}
    /\ started' = started + 1

\* handleLoadMatch with loadMatchSelect.value = matchId ("" parses to NaN,
\* here 0): resetToNewMatch, or a get whose onsuccess comes later.
handleLoadMatch(matchId) ==
    /\ IF matchId = 0
       THEN /\ currentMatch' = Null
            /\ selectedShot' = Null
            /\ UNCHANGED <<pending, started>>
       ELSE /\ Start(Op("load", matchId, 0, 0, "", matches[matchId]))
            /\ UNCHANGED <<currentMatch, selectedShot>>
    /\ UNCHANGED <<matches, thrown, predictVars, heatVars, home>>

\* request.onsuccess of handleLoadMatch: currentMatch = request.result.
MatchLoaded(op) ==
    /\ op \in pending /\ op.kind = "load"
    /\ currentMatch' = op.result
    /\ pending' = pending \ {op}
    /\ UNCHANGED <<selectedShot, matches, started, thrown, predictVars, heatVars, home>>

\* handleShotSelection(index), from the click listener of an item of the
\* shot lists, which updateShotLists builds from currentMatch.shots.
handleShotSelection(index) ==
    /\ currentMatch # Null
    /\ index + 1 \in DOMAIN currentMatch.shots
    /\ selectedShot' = IF selectedShot # Null /\ selectedShot.index = index THEN Null
                       ELSE [currentMatch.shots[index + 1] EXCEPT !.index = index]
    /\ UNCHANGED <<currentMatch, matches, pending, started, thrown, predictVars, heatVars,
                   home>>

\* deleteSelectedShot()
deleteSelectedShot ==
    /\ selectedShot # Null
    /\ IF currentMatch = Null
       THEN /\ thrown' = "deleteSelectedShot"
            /\ UNCHANGED <<currentMatch, selectedShot, matches>>
       ELSE LET match == [currentMatch EXCEPT
                             !.shots = SpliceAndReindex(@, selectedShot.index)]
            IN /\ currentMatch' = match
               /\ selectedShot' = Null
               /\ matches' = updateMatchInDB(matches, match)
               /\ UNCHANGED thrown
    /\ UNCHANGED <<pending, started, predictVars, heatVars, home>>

\* handleCanvasClick of the match plotter for a click at metersX on the
\* pitch, up to `await callXGPrediction(...)`.
plotterCanvasClick(metersX) ==
    /\ currentMatch # Null
    /\ IF selectedShot # Null
       THEN Start(Op("move", currentMatch.id, selectedShot.ref, metersX, "", Null))
       ELSE Start(Op("add", currentMatch.id, NewRef, metersX, "", Null))
    /\ UNCHANGED <<currentMatch, selectedShot, matches, thrown, predictVars,
                   heatVars, home>>

\* saveShotChanges() with editSituationSelect.value = newSituation, up to the
\* call of callXGPrediction: reading shot.team throws when
\* currentMatch.shots[selectedShot.index] is undefined.
saveShotChanges(newSituation) ==
    /\ selectedShot # Null
    /\ IF currentMatch = Null \/ selectedShot.index + 1 \notin DOMAIN currentMatch.shots
       THEN /\ thrown' = "saveShotChanges"
            /\ UNCHANGED <<pending, started>>
       ELSE /\ Start(Op("save", currentMatch.id, selectedShot.ref, 0, newSituation, Null))
            /\ UNCHANGED thrown
    /\ UNCHANGED <<currentMatch, selectedShot, matches, predictVars, heatVars, home>>

\* callXGPrediction has returned xg (null after a failed fetch) and the
\* operation resumes: handleCanvasClick after its await, or the then callback
\* of saveShotChanges.  currentMatch and selectedShot are read as they are now;
\* a TypeError ends the operation before it has written anything.
PredictionAnswered(op, xg) ==
    /\ op \in pending /\ op.kind # "load"
    /\ pending' = pending \ {op}
    /\ IF xg = Null
       THEN UNCHANGED <<currentMatch, selectedShot, matches, thrown>>
       ELSE IF \/ currentMatch = Null
               \/ /\ op.kind # "add"
                  /\ \/ selectedShot = Null
                     \/ selectedShot.index + 1 \notin DOMAIN currentMatch.shots
       THEN /\ thrown' = op.kind
            /\ UNCHANGED <<currentMatch, selectedShot, matches>>
       ELSE LET i == selectedShot.index + 1
                match ==
                    CASE op.kind = "add" ->
                           [currentMatch EXCEPT !.shots =
                               Append(@, Shot(op.ref, op.x, op.situation, xg, Len(@)))]
                      [] op.kind = "move" ->
                           [currentMatch EXCEPT !.shots[i].x = op.x, !.shots[i].xg = xg]
                      [] op.kind = "save" ->
                           [currentMatch EXCEPT !.shots[i].situation = op.situation,
                                                !.shots[i].xg = xg]
            IN /\ currentMatch' = match
               /\ selectedShot' =
                    CASE op.kind = "add" -> selectedShot
                      [] op.kind = "move" ->
                           [selectedShot EXCEPT !.x = op.x, !.xg = xg]
                      [] op.kind = "save" ->
                           [selectedShot EXCEPT !.situation = op.situation, !.xg = xg]
               /\ matches' = updateMatchInDB(matches, match)
               /\ UNCHANGED thrown
    /\ UNCHANGED <<started, predictVars, heatVars, home>>

(***************************************************************************)
(* SpecM: the match plotter with two stored matches, under any order of    *)
(* the user's actions and of the answers of the operations in flight.      *)
(***************************************************************************)
\* data.xG of the answers of /api/predict.
XgAnswers == {Rat(1, 2)}

NextM ==
    \/ \E matchId \in {0} \cup DOMAIN matches : handleLoadMatch(matchId)
    \/ \E op \in pending : MatchLoaded(op)
    \/ \E index \in 0 .. MaxStarted + 1 : handleShotSelection(index)
    \/ deleteSelectedShot
    \/ \E metersX \in {50} : plotterCanvasClick(metersX)
    \/ \E newSituation \in {"OpenPlay"} : saveShotChanges(newSituation)
    \/ \E op \in pending, xg \in XgAnswers \cup {Null} : PredictionAnswered(op, xg)

SpecM == Init /\ [][NextM]_vars

(***************************************************************************)
(* Vocabulary of the properties.                                           *)
(***************************************************************************)
ValidationErrors ==
    {ERR_MISSING_XY, ERR_NOT_NUMERIC, ERR_SITUATION, ERR_SHOT_TYPE, ERR_NO_KEY,
     ERR_DIMS_REQUIRED, ERR_DIMS_NUMERIC, ERR_DIMS_POSITIVE, ERR_RANGE}

\* A situation or shot type is present when it is neither null/undefined nor ''.
Present(v) == ~IsNullish(v) /\ v # Str("")

Started(c)  == calls[c].pc # "idle"
Finished(c) == calls[c].pc = "done"

FailedValidation(c) ==
    /\ calls[c].outcome.status = "rejected"
    /\ calls[c].outcome.error \in ValidationErrors

\* The call never reached getSession, InferenceSession.create or session.run.
Untouched(c) ==
    /\ ~calls[c].calledGetSession
    /\ ~calls[c].calledRun
    /\ calls[c].loads = 0
    /\ calls[c].session = NoSession

PenaltyResult(chosenModel) ==
    [xG |-> Rat(76, 100), x |-> Rat(895, 1000), y |-> Rat(1, 2),
     chosenModel |-> chosenModel]

\* A string that is a decimal literal from its first character to its last
\* (leading blanks and a sign allowed).
WholeLiteral(s, ip) ==
    /\ ip.cnt > 0
    /\ \/ ip.next = Len(s) + 1
       \/ /\ s[ip.next] = "."
          /\ ScanDigits(s, ip.next + 1, 0, 0).next = Len(s) + 1

IsNumericString(s, i0) ==
    WholeLiteral(s, ScanDigits(s, IF i0 <= Len(s) /\ s[i0] \in {"-", "+"}
                                  THEN i0 + 1 ELSE i0, 0, 0))

\* A numeric value: a number, or a string that spells one.
IsNumeric(v) ==
    \/ v.t = "num"
    \/ v.t = "str" /\ IsNumericString(v.v, SkipBlanks(v.v, 1))

(***************************************************************************)
(* C1.  Concurrent predict calls for a variant that is not loaded yet      *)
(* share one load: at no time are two calls each awaiting an               *)
(* InferenceSession.create of their own for the same variant.              *)
(***************************************************************************)
C1_OneLoadInFlight ==
    \A c, d \in Calls :
        (c # d /\ calls[c].pc = "creating" /\ calls[d].pc = "creating")
            => calls[c].chosenModel # calls[d].chosenModel

(***************************************************************************)
(* C2.  For every call that passed validation the chosen model is given by *)
(* the table on (situation present, shotType present), whatever x, y, the  *)
(* normalisation and the enum members are.                                 *)
(***************************************************************************)
C2_ModelTable ==
    \A c \in Calls :
        (Started(c) /\ ~FailedValidation(c)) =>
            calls[c].chosenModel =
                (IF Present(calls[c].args.situation)
                 THEN (IF Present(calls[c].args.shotType)
                       THEN "advanced_model" ELSE "situation_model")
                 ELSE (IF Present(calls[c].args.shotType)
                       THEN "shottype_model" ELSE "basic_model"))

\* C2 witness: a call with raw coordinates and a LeftFoot shot type has
\* resolved on the ShotType variant.
C2_Witness ==
    /\ Finished(1)
    /\ calls[1].outcome.status = "resolved"
    /\ calls[1].chosenModel = "shottype_model"
    /\ calls[1].args.x = Num(Rat(189, 2))
    /\ calls[1].args.shotType = Str("LeftFoot")

AbsentOrValidShotType(v) == ~Present(v) \/ SetHas(VALID_SHOT_TYPES, v)

\* is_normalised is true, or false with two positive numbers as dimensions.
PositiveNumber(v) == v.t = "num" /\ RLt(RInt(0), v.v)

WellFormedConfig(n) ==
    /\ HasOwn(n, "is_normalised")
    /\ \/ Get(n, "is_normalised") = Bool(TRUE)
       \/ /\ Get(n, "is_normalised") = Bool(FALSE)
          /\ PositiveNumber(Get(n, "max_pitch_width"))
          /\ PositiveNumber(Get(n, "max_pitch_length"))

(***************************************************************************)
(* C3.  As stated: every finished call with situation 'Penalty', numeric   *)
(* x and y, an absent or valid shotType and a well-formed normalisation    *)
(* config resolved with xG 0.76 at (0.895, 0.5).                           *)
(***************************************************************************)
C3_PenaltyAlwaysConstant ==
    \A c \in Calls :
        (/\ Finished(c)
         /\ calls[c].args.situation = Str("Penalty")
         /\ calls[c].args.x.t = "num" /\ calls[c].args.y.t = "num"
         /\ AbsentOrValidShotType(calls[c].args.shotType)
         /\ WellFormedConfig(calls[c].args.normalisation))
            => calls[c].outcome = Resolved(PenaltyResult(calls[c].chosenModel))

\* The coordinates of the request, divided by the pitch dimensions when the
\* config asks for it, lie in [0,1] x [0,1].
InUnitSquare(x, y) ==
    /\ RLe(RInt(0), x) /\ RLe(x, RInt(1))
    /\ RLe(RInt(0), y) /\ RLe(y, RInt(1))

InRangeRequest(a) ==
    /\ a.x.t = "num" /\ a.y.t = "num"
    /\ WellFormedConfig(a.normalisation)
    /\ IF Get(a.normalisation, "is_normalised") = Bool(TRUE)
       THEN InUnitSquare(a.x.v, a.y.v)
       ELSE InUnitSquare(RDiv(a.x.v, Get(a.normalisation, "max_pitch_length").v),
                         RDiv(a.y.v, Get(a.normalisation, "max_pitch_width").v))

(***************************************************************************)
(* C3 amended.  Every call with situation 'Penalty', a well-formed         *)
(* normalisation config and coordinates that lie in [0,1] after the        *)
(* normalisation step resolves, in the very step that invokes it, with xG  *)
(* 0.76 at (0.895, 0.5), whatever the shotType (absent or an enum member)  *)
(* and whatever those coordinates are.                                     *)
(***************************************************************************)
C3_PenaltyConstantWhenValid ==
    \A c \in Calls :
        (/\ Started(c)
         /\ calls[c].args.situation = Str("Penalty")
         /\ AbsentOrValidShotType(calls[c].args.shotType)
         /\ InRangeRequest(calls[c].args))
            => /\ Finished(c)
               /\ calls[c].outcome = Resolved(PenaltyResult(calls[c].chosenModel))

\* C3 witness: a Penalty call with raw in-range coordinates and a shot type
\* has resolved with the constant.
C3_Witness ==
    /\ Finished(1)
    /\ calls[1].args.situation = Str("Penalty")
    /\ calls[1].args.shotType = Str("Head")
    /\ calls[1].args.x = Num(Rat(189, 2))
    /\ calls[1].args.y = Num(RInt(34))
    /\ calls[1].outcome = Resolved(PenaltyResult("advanced_model"))

(***************************************************************************)
(* C4.  The cache only grows: in every step, a variant that has a cache    *)
(* entry keeps that very session, and a call that reaches getSession while *)
(* the entry exists gets that session without a new create.                *)
(***************************************************************************)
C4_CacheEntriesStable ==
    [][/\ \A m \in DOMAIN cache : m \in DOMAIN cache' /\ cache'[m] = cache[m]
       /\ \A c \in Calls :
            (/\ calls[c].pc = "idle"
             /\ calls'[c].calledGetSession
             /\ calls'[c].chosenModel \in DOMAIN cache)
                => /\ calls'[c].session = cache[calls'[c].chosenModel]
                   /\ created' = created]_vars

\* No call has obtained a session of modelName.
NeverLoaded(modelName) ==
    \A d \in Calls :
        calls[d].chosenModel = modelName =>
            /\ calls[d].pc \notin {"gotSession", "running"}
            /\ ~calls[d].calledRun

(***************************************************************************)
(* C5.  A load that fails rejects the call without a second create, writes *)
(* nothing to the cache, and a later predict for the same variant, which   *)
(* finds no session there, invokes create again.                           *)
(***************************************************************************)
C5_FailedLoadNotCached ==
    [][\A c \in Calls :
         /\ (calls[c].pc = "creating" /\ calls'[c].outcome.status = "rejected")
              => /\ calls'[c].pc = "done"
                 /\ calls'[c].outcome = Rejected(ERR_LOAD)
                 /\ calls'[c].loads = 1
                 /\ created' = created
                 /\ cache' = cache
         /\ (/\ calls[c].pc = "idle"
             /\ calls'[c].calledGetSession
             /\ LoadFailed(calls'[c].chosenModel)
             /\ NeverLoaded(calls'[c].chosenModel))
              => /\ calls'[c].pc = "creating"
                 /\ created'[calls'[c].chosenModel] = created[calls'[c].chosenModel] + 1]_vars

\* C5 witness: a call is loading a variant after another call's load of it was rejected.
C5_Witness ==
    \E c, d \in Calls :
        /\ calls[d].outcome = Rejected(ERR_LOAD)
        /\ calls[c].chosenModel = calls[d].chosenModel
        /\ calls[c].pc = "creating"
        /\ calls[c].afterFailure
        /\ calls[c].chosenModel \notin DOMAIN cache
        /\ created[calls[c].chosenModel] = 2

\* What C6 says of each call: untouched when it failed validation or is a
\* Penalty; when touched, its inputs are valid and its coordinates in range.
C6_Frame ==
    \A c \in Calls :
        /\ FailedValidation(c) => Untouched(c)
        /\ calls[c].args.situation = Str("Penalty") => Untouched(c)
        /\ ~Untouched(c) =>
              /\ ~Present(calls[c].args.situation)
                    \/ SetHas(VALID_SITUATIONS \ {"Penalty"}, calls[c].args.situation)
              /\ ~Present(calls[c].args.shotType)
                    \/ SetHas(VALID_SHOT_TYPES, calls[c].args.shotType)
              /\ HasOwn(calls[c].args.normalisation, "is_normalised")
              /\ InUnitSquare(calls[c].normX, calls[c].normY)

(***************************************************************************)
(* C6.  A call that fails validation or has situation 'Penalty' never      *)
(* reaches getSession, InferenceSession.create or session.run, and the     *)
(* step in which it throws or returns leaves the cache as it was; a call   *)
(* that reaches them carries an absent or valid situation and shot type    *)
(* and coordinates in [0,1].                                               *)
(***************************************************************************)
C6_SessionsOnlyForValidNonPenalty ==
    /\ []C6_Frame
    /\ [][\A c \in Calls :
            (calls[c].pc = "idle" /\ calls'[c].pc = "done")
                => cache' = cache /\ created' = created]_vars

\* C6 witness: with a session cached by another call, a Penalty call has
\* returned.
C6_Witness ==
    \E c, d \in Calls :
        /\ calls[d].chosenModel \in DOMAIN cache
        /\ cache[calls[d].chosenModel] = calls[d].session
        /\ Finished(c) /\ calls[c].args.situation = Str("Penalty")
        /\ calls[c].outcome.status = "resolved"
        /\ Untouched(c)

(***************************************************************************)
(* C7.  A finished call either resolved with the four fields xG, x, y and  *)
(* chosenModel, or rejected with one error and no result; a call that has  *)
(* not finished has delivered nothing.                                     *)
(***************************************************************************)
C7_NoPartialOutcome ==
    \A c \in Calls :
        IF Finished(c)
        THEN \/ /\ calls[c].outcome.status = "resolved"
                /\ calls[c].outcome.error = ""
                /\ DOMAIN calls[c].outcome.result = {"xG", "x", "y", "chosenModel"}
                /\ DOMAIN calls[c].outcome.result.xG = {"n", "d"}
                /\ calls[c].outcome.result.chosenModel \in ModelNames
             \/ /\ calls[c].outcome.status = "rejected"
                /\ calls[c].outcome.error # ""
                /\ calls[c].outcome.result = NoResult
        ELSE calls[c].outcome = Pending

\* C7 witness: one call resolved from a model run, one was rejected by a
\* failed run.
C7_Witness ==
    \E c, d \in Calls :
        /\ Finished(c) /\ calls[c].calledRun /\ calls[c].outcome.status = "resolved"
        /\ Finished(d) /\ calls[d].calledRun /\ calls[d].outcome = Rejected(ERR_RUN)

EmptyAsNull(v) == IF v = Str("") THEN Null ELSE v

\* The call c against r, what predict does up to its first await when the
\* empty strings of c's arguments are replaced by null.
SameAs(c, r) ==
    CASE r.kind = "throw"  -> calls[c].outcome = Rejected(r.error)
      [] r.kind = "return" -> calls[c].outcome = Resolved(PenaltyResult(r.chosenModel))
      [] r.kind = "await"  ->
            /\ calls[c].calledGetSession
            /\ calls[c].chosenModel = r.chosenModel
            /\ calls[c].normX = r.x /\ calls[c].normY = r.y
            /\ calls[c].featureVector = r.featureVector
            /\ calls[c].outcome.status = "resolved" =>
                   calls[c].outcome = RunResult(calls[c].raw, r.x, r.y, r.chosenModel)

(***************************************************************************)
(* C8.  A call given '' for situation or shotType behaves as the call with *)
(* null in its place: the same error, or the same chosen model, normalised *)
(* coordinates, feature vector and result.                                 *)
(***************************************************************************)
C8_EmptyStringIsAbsent ==
    \A c \in Calls :
        (/\ Started(c)
         /\ calls[c].args.situation = Str("") \/ calls[c].args.shotType = Str(""))
            => SameAs(c, PredictSync(calls[c].args.x, calls[c].args.y,
                                     EmptyAsNull(calls[c].args.situation),
                                     EmptyAsNull(calls[c].args.shotType),
                                     calls[c].args.normalisation))

\* C8 witness: a call with situation '' and a shot type has resolved on the
\* ShotType variant.
C8_Witness ==
    /\ Finished(1)
    /\ calls[1].args.situation = Str("")
    /\ calls[1].args.shotType = Str("Head")
    /\ calls[1].chosenModel = "shottype_model"
    /\ calls[1].outcome.status = "resolved"

(***************************************************************************)
(* C9.  predict rejects when x or y is missing or not numeric, when the    *)
(* situation is present and no member of the enum and when the shot type   *)
(* is present and no member of the enum; with numeric x and y and absent   *)
(* or valid situation and shot type none of these four checks rejects.     *)
(***************************************************************************)
C9_CoordinateAndEnumChecks ==
    \A c \in Calls :
        Finished(c) =>
            /\ (\/ IsNullish(calls[c].args.x) \/ IsNullish(calls[c].args.y)
                \/ ~IsNumeric(calls[c].args.x) \/ ~IsNumeric(calls[c].args.y)
                \/ /\ Present(calls[c].args.situation)
                   /\ ~SetHas(VALID_SITUATIONS, calls[c].args.situation)
                \/ /\ Present(calls[c].args.shotType)
                   /\ ~SetHas(VALID_SHOT_TYPES, calls[c].args.shotType))
                  => calls[c].outcome.status = "rejected"
            /\ (/\ IsNumeric(calls[c].args.x) /\ IsNumeric(calls[c].args.y)
                /\ ~Present(calls[c].args.situation)
                      \/ SetHas(VALID_SITUATIONS, calls[c].args.situation)
                /\ ~Present(calls[c].args.shotType)
                      \/ SetHas(VALID_SHOT_TYPES, calls[c].args.shotType))
                  => calls[c].outcome.error \notin
                        {ERR_MISSING_XY, ERR_NOT_NUMERIC, ERR_SITUATION, ERR_SHOT_TYPE}

BadDimension(v) ==
    \/ IsNullish(v)
    \/ ~IsNumeric(v)
    \/ RLe(parseFloat(v).v, RInt(0))

(***************************************************************************)
(* C10.  predict rejects when the normalisation config is null or has no   *)
(* is_normalised key and, when is_normalised is false, when                *)
(* max_pitch_width or max_pitch_length is missing, not numeric or <= 0.    *)
(***************************************************************************)
C10_ConfigChecks ==
    \A c \in Calls :
        (/\ Finished(c)
         /\ \/ IsNullish(calls[c].args.normalisation)
            \/ ~HasOwn(calls[c].args.normalisation, "is_normalised")
            \/ /\ Get(calls[c].args.normalisation, "is_normalised") = Bool(FALSE)
               /\ \/ BadDimension(Get(calls[c].args.normalisation, "max_pitch_width"))
                  \/ BadDimension(Get(calls[c].args.normalisation, "max_pitch_length")))
            => calls[c].outcome.status = "rejected"

\* A dimension that spells a positive number.
PositiveDimension(v) == IsNumeric(v) /\ RLt(RInt(0), parseFloat(v).v)

\* A request with numeric coordinates that asks for normalisation by two
\* positive pitch dimensions.
RawRequest(a) ==
    /\ IsNumeric(a.x) /\ IsNumeric(a.y)
    /\ HasOwn(a.normalisation, "is_normalised")
    /\ Get(a.normalisation, "is_normalised") = Bool(FALSE)
    /\ PositiveDimension(Get(a.normalisation, "max_pitch_width"))
    /\ PositiveDimension(Get(a.normalisation, "max_pitch_length"))

XOverLength(a) ==
    RDiv(parseFloat(a.x).v, parseFloat(Get(a.normalisation, "max_pitch_length")).v)

YOverWidth(a) ==
    RDiv(parseFloat(a.y).v, parseFloat(Get(a.normalisation, "max_pitch_width")).v)

(***************************************************************************)
(* C11.  With is_normalised false and two positive dimensions the          *)
(* normalised coordinates are x / max_pitch_length and y / max_pitch_width *)
(* (never the other way round); the call passes the dimension and range    *)
(* checks when these lie in [0,1], and a resolved non-Penalty result       *)
(* carries exactly these two values as its x and y.                        *)
(***************************************************************************)
C11_NormalisedByLengthAndWidth ==
    \A c \in Calls :
        (Started(c) /\ RawRequest(calls[c].args)) =>
            /\ calls[c].calledGetSession =>
                  /\ calls[c].normX = XOverLength(calls[c].args)
                  /\ calls[c].normY = YOverWidth(calls[c].args)
            /\ InUnitSquare(XOverLength(calls[c].args), YOverWidth(calls[c].args)) =>
                  calls[c].outcome.error \notin
                      {ERR_DIMS_REQUIRED, ERR_DIMS_NUMERIC, ERR_DIMS_POSITIVE, ERR_RANGE}
            /\ (/\ calls[c].outcome.status = "resolved"
                /\ calls[c].args.situation # Str("Penalty")) =>
                  /\ calls[c].outcome.result.x = XOverLength(calls[c].args)
                  /\ calls[c].outcome.result.y = YOverWidth(calls[c].args)

\* C11 witness: raw (94.5, 34) on a 105 by 68 pitch has resolved at (0.9, 0.5).
C11_Witness ==
    /\ Finished(1)
    /\ calls[1].args.x = Num(Rat(189, 2))
    /\ calls[1].args.y = Num(RInt(34))
    /\ calls[1].args.normalisation = Raw(Num(RInt(68)), Num(RInt(105)))
    /\ calls[1].args.situation # Str("Penalty")
    /\ calls[1].calledRun
    /\ calls[1].outcome.status = "resolved"
    /\ calls[1].outcome.result.x = Rat(9, 10)
    /\ calls[1].outcome.result.y = Rat(1, 2)

\* A request that reaches determineModel's range check: parsable x and y,
\* absent or valid situation and shot type, and is_normalised true, or false
\* with two positive dimensions.
ReachesRangeCheck(a) ==
    /\ ~IsNullish(a.x) /\ ~IsNullish(a.y)
    /\ ~IsNaN(parseFloat(a.x)) /\ ~IsNaN(parseFloat(a.y))
    /\ isValidSituation(a.situation) /\ isValidShotType(a.shotType)
    /\ HasOwn(a.normalisation, "is_normalised")
    /\ \/ Get(a.normalisation, "is_normalised") = Bool(TRUE)
       \/ /\ Get(a.normalisation, "is_normalised") = Bool(FALSE)
          /\ PositiveDimension(Get(a.normalisation, "max_pitch_width"))
          /\ PositiveDimension(Get(a.normalisation, "max_pitch_length"))

\* The coordinates of such a request after the normalisation step.
AfterNormalisationX(a) ==
    IF Get(a.normalisation, "is_normalised") = Bool(FALSE)
    THEN XOverLength(a) ELSE parseFloat(a.x).v

AfterNormalisationY(a) ==
    IF Get(a.normalisation, "is_normalised") = Bool(FALSE)
    THEN YOverWidth(a) ELSE parseFloat(a.y).v

(***************************************************************************)
(* C12.  In both branches a call whose coordinates after the normalisation *)
(* step are outside [0,1] is rejected with the range error; every resolved *)
(* result has x and y in [0,1], and the feature vector is only ever built  *)
(* from coordinates in [0,1].                                              *)
(***************************************************************************)
C12_OnlyUnitSquareCoordinates ==
    \A c \in Calls :
        Started(c) =>
            /\ (/\ ReachesRangeCheck(calls[c].args)
                /\ ~InUnitSquare(AfterNormalisationX(calls[c].args),
                                 AfterNormalisationY(calls[c].args)))
                  => calls[c].outcome = Rejected(ERR_RANGE)
            /\ calls[c].outcome.status = "resolved" =>
                  InUnitSquare(calls[c].outcome.result.x, calls[c].outcome.result.y)
            /\ calls[c].featureVector # NoVector =>
                  InUnitSquare(calls[c].normX, calls[c].normY)

\* C12 witness: the normalised request (1.5, 0.5) has been rejected by the
\* range check.
C12_Witness ==
    /\ Finished(1)
    /\ calls[1].args.x = Num(Rat(3, 2))
    /\ calls[1].args.y = Num(Rat(1, 2))
    /\ calls[1].args.normalisation = Normalised
    /\ calls[1].outcome = Rejected(ERR_RANGE)
    /\ calls[1].featureVector = NoVector

\* The value of the schema column f for a shot at (x, y) with the given
\* situation and shot type.
ColumnValue(f, x, y, situation, shotType) ==
    CASE f = "X" -> Val(x)
      [] f = "Y" -> Val(y)
      [] f = "distance_to_goal" ->
            Sqrt(RAdd(Sq(RSub(x, RInt(1))), Sq(RSub(y, Rat(1, 2)))))
      [] f = "angle_to_goal" -> AngleToGoal(x, y)
      [] OTHER ->
            IF \/ Present(situation) /\ f = "situation_" \o situation.v
               \/ Present(shotType) /\ f = "shotType_" \o shotType.v
               \/ /\ Present(situation) /\ Present(shotType)
                  /\ f = "interaction_" \o situation.v \o "_" \o shotType.v
            THEN Val(RInt(1)) ELSE Val(RInt(0))

\* The call has built its feature vector.
HasVector(c) == calls[c].featureVector # NoVector

\* The schema columns at which the call's feature vector is not 0.
NonZeroColumns(c) ==
    {MODEL_FEATURES[calls[c].chosenModel][i] :
        i \in {j \in DOMAIN calls[c].featureVector :
                  calls[c].featureVector[j] # Val(RInt(0))}}

(***************************************************************************)
(* C13.  The feature vector of a call has one entry per column of the      *)
(* chosen variant's schema, entry i is the value of the i-th column, and   *)
(* the non-zero entries stay within the variant's columns: X, Y, distance  *)
(* and angle for Basic, these and shotType_* for ShotType, these and       *)
(* situation_* for Situation.                                              *)
(***************************************************************************)
C13_VectorFollowsSchema ==
    \A c \in Calls :
        HasVector(c) =>
            /\ Len(calls[c].featureVector) = Len(MODEL_FEATURES[calls[c].chosenModel])
            /\ \A i \in 1 .. Len(MODEL_FEATURES[calls[c].chosenModel]) :
                  calls[c].featureVector[i] =
                      ColumnValue(MODEL_FEATURES[calls[c].chosenModel][i],
                                  calls[c].normX, calls[c].normY,
                                  calls[c].args.situation, calls[c].args.shotType)
            /\ calls[c].chosenModel = "basic_model" =>
                  /\ Len(calls[c].featureVector) = 4
                  /\ NonZeroColumns(c) \subseteq
                        {"X", "Y", "distance_to_goal", "angle_to_goal"}
            /\ calls[c].chosenModel = "shottype_model" =>
                  NonZeroColumns(c) \subseteq
                      {"X", "Y", "distance_to_goal", "angle_to_goal", "shotType_Head",
                       "shotType_LeftFoot", "shotType_OtherBodyPart", "shotType_RightFoot"}
            /\ calls[c].chosenModel = "situation_model" =>
                  NonZeroColumns(c) \subseteq
                      {"X", "Y", "distance_to_goal", "angle_to_goal",
                       "situation_DirectFreekick", "situation_FromCorner",
                       "situation_OpenPlay", "situation_Penalty", "situation_SetPiece"}

\* C13 witness: a LeftFoot shot without situation carries the eight entries
\* of the ShotType schema, the sixth of them (shotType_LeftFoot) set.
C13_Witness ==
    /\ calls[1].chosenModel = "shottype_model"
    /\ calls[1].args.shotType = Str("LeftFoot")
    /\ Len(calls[1].featureVector) = 8
    /\ calls[1].featureVector[1] = Val(calls[1].normX)
    /\ calls[1].featureVector[6] = Val(RInt(1))
    /\ calls[1].featureVector[5] = Val(RInt(0))

\* The grid that drawHeatmap is drawing.
XCoords == heatmapData.grid_definition.x_coords
YCoords == heatmapData.grid_definition.y_coords

\* The value stored for row j and column i of the grid (sequence indices).
Stored(j, i) == heatmapData.heatmap[j][i]

HasStored(j, i) == j \in DOMAIN heatmapData.heatmap /\ i \in DOMAIN heatmapData.heatmap[j]

\* The last iteration sampled the grid (its pixel lies on the pitch).
Sampled == pixel.inPitch

Halfway(a, b) == RMul(Rat(1, 2), RAdd(a, b))

(***************************************************************************)
(* C14.  A pixel that lies on the grid vertex (x_coords[i], y_coords[j])   *)
(* gets the stored value heatmap[j][i]; a pixel at the midpoint of a cell  *)
(* gets the mean of the cell's four corner values (0.3 for 0.0, 0.2, 0.4,  *)
(* 0.6); an interpolated value is (v00(1-wx) + v10 wx)(1-wy) +             *)
(* (v01(1-wx) + v11 wx) wy over heatmap[yIndex][xIndex] and its            *)
(* neighbours.                                                             *)
(***************************************************************************)
C14_VertexAndMidpointValues ==
    Sampled =>
        /\ \A i \in DOMAIN XCoords, j \in DOMAIN YCoords :
              (/\ pixel.meterX = XCoords[i] /\ pixel.meterY = YCoords[j]
               /\ HasStored(j, i))
                  => pixel.xgValue = Stored(j, i)
        /\ \A i \in 1 .. Len(XCoords) - 1, j \in 1 .. Len(YCoords) - 1 :
              (/\ pixel.meterX = Halfway(XCoords[i], XCoords[i + 1])
               /\ pixel.meterY = Halfway(YCoords[j], YCoords[j + 1])
               /\ HasStored(j + 1, i + 1))
                  => /\ pixel.xgValue =
                            RMul(Rat(1, 4), RAdd(RAdd(Stored(j, i), Stored(j, i + 1)),
                                                 RAdd(Stored(j + 1, i), Stored(j + 1, i + 1))))
                     /\ (i = 1 /\ j = 1) => pixel.xgValue = Rat(3, 10)
        /\ (pixel.interpolated /\ HasStored(pixel.yIndex + 2, pixel.xIndex + 2)) =>
              pixel.xgValue =
                  RAdd(RMul(RAdd(RMul(Stored(pixel.yIndex + 1, pixel.xIndex + 1),
                                      RSub(RInt(1), pixel.xWeight)),
                                 RMul(Stored(pixel.yIndex + 1, pixel.xIndex + 2),
                                      pixel.xWeight)),
                            RSub(RInt(1), pixel.yWeight)),
                       RMul(RAdd(RMul(Stored(pixel.yIndex + 2, pixel.xIndex + 1),
                                      RSub(RInt(1), pixel.xWeight)),
                                 RMul(Stored(pixel.yIndex + 2, pixel.xIndex + 2),
                                      pixel.xWeight)),
                            pixel.yWeight))

\* v lies between the stops i and i + 1.
InSegment(v, i) == RLe(colorStops[i].value, v) /\ RLe(v, colorStops[i + 1].value)

\* The exact linear interpolation of the channel values lower and upper at v
\* between the stops i and i + 1.
Linear(v, i, lower, upper) ==
    RAdd(RInt(lower),
         RMul(RDiv(RSub(v, colorStops[i].value),
                   RSub(colorStops[i + 1].value, colorStops[i].value)),
              RInt(upper - lower)))

\* c is an integer nearest to r.
Nearest(c, r) ==
    /\ RLe(RSub(RInt(c), r), Rat(1, 2))
    /\ RLe(RSub(r, RInt(c)), Rat(1, 2))

\* From c to d the channel moves as it does from the stop's value lower to
\* the next stop's value upper.
Towards(c, d, lower, upper) ==
    IF lower <= upper THEN c <= d ELSE c >= d

(***************************************************************************)
(* C15.  getHeatmapColorRGBA returns (255, 255, 255, 0) for 0 and          *)
(* (255, 0, 0, 255) for 1, the stop's own colour at every stop value, and  *)
(* for a value between two adjacent stops the integer nearest to the       *)
(* linear interpolation of each channel; of two values in one segment the  *)
(* larger one has each channel further towards the upper stop.             *)
(***************************************************************************)
C15_ColourRamp ==
    /\ [](shade.called =>
            /\ shade.xgValue = RInt(0) => shade.color = Color(255, 255, 255, 0)
            /\ shade.xgValue = RInt(1) => shade.color = Color(255, 0, 0, 255)
            /\ \A i \in DOMAIN colorStops :
                  shade.xgValue = colorStops[i].value => shade.color = colorStops[i].color
            /\ \A i \in 1 .. Len(colorStops) - 1 :
                  InSegment(shade.xgValue, i) =>
                      \A ch \in {"r", "g", "b", "a"} :
                          Nearest(shade.color[ch],
                                  Linear(shade.xgValue, i, colorStops[i].color[ch],
                                         colorStops[i + 1].color[ch])))
    /\ [][\A i \in 1 .. Len(colorStops) - 1 :
            (/\ shade.called
             /\ InSegment(shade.xgValue, i) /\ InSegment(shade'.xgValue, i)
             /\ RLe(shade.xgValue, shade'.xgValue))
                => \A ch \in {"r", "g", "b", "a"} :
                      Towards(shade.color[ch], shade'.color[ch],
                              colorStops[i].color[ch], colorStops[i + 1].color[ch])]_vars

\* C15 witness: 0.2, halfway between the stops 0.1 and 0.3, has got the
\* colour halfway between theirs, the halves rounded.
C15_Witness ==
    /\ shade.called
    /\ shade.xgValue = Rat(1, 5)
    /\ shade.color = Color(50, 139, 119, 125)

\* What a call has derived from its arguments.
Derived(c) ==
    <<calls[c].args, calls[c].chosenModel, calls[c].normX, calls[c].normY,
      calls[c].featureVector>>

(***************************************************************************)
(* C16.  Whatever the interleaving, a call's error, chosen model,          *)
(* normalised coordinates, feature vector and result are those that its    *)
(* own arguments determine (with the probability its model run returned);  *)
(* the session it uses is one of its own variant; and no step of one call  *)
(* changes what another call has derived.                                  *)
(***************************************************************************)
C16_CallsAreIndependent ==
    /\ [](\A c \in Calls :
            Started(c) =>
                /\ SameAs(c, PredictSync(calls[c].args.x, calls[c].args.y,
                                         calls[c].args.situation, calls[c].args.shotType,
                                         calls[c].args.normalisation))
                /\ calls[c].session # NoSession =>
                       calls[c].session[1] = calls[c].chosenModel)
    /\ [][\A c \in Calls :
            /\ Started(c) => Derived(c)' = Derived(c)
            /\ calls'[c] # calls[c] => \A d \in Calls \ {c} : calls'[d] = calls[d]]_vars

\* C16 witness: two calls for one variant, one started on an empty cache and
\* still running, the other started on the populated cache and resolved, with
\* the same feature vector and coordinates.
C16_Witness ==
    \E c, d \in Calls :
        /\ c # d
        /\ calls[c].chosenModel = calls[d].chosenModel
        /\ calls[c].loads = 1 /\ calls[c].pc = "running"
        /\ calls[d].loads = 0 /\ calls[d].calledRun
        /\ calls[d].outcome.status = "resolved"
        /\ calls[d].featureVector = calls[c].featureVector
        /\ calls[d].outcome.result.x = calls[c].normX

InUnitInterval(w) == RLe(RInt(0), w) /\ RLe(w, RInt(1))

(***************************************************************************)
(* C17.  Whenever drawHeatmap interpolates for a pixel on the pitch, the   *)
(* cell it has located contains the point: x_coords[xIndex] <= meterX <=   *)
(* x_coords[xIndex + 1], y_coords[yIndex] <= meterY <= y_coords[yIndex +   *)
(* 1], and both weights lie in [0,1], on every ascending uniform grid.     *)
(***************************************************************************)
C17_CellContainsPoint ==
    (Sampled /\ pixel.interpolated) =>
        /\ RLe(XCoords[pixel.xIndex + 1], pixel.meterX)
        /\ RLe(pixel.meterX, XCoords[pixel.xIndex + 2])
        /\ RLe(YCoords[pixel.yIndex + 1], pixel.meterY)
        /\ RLe(pixel.meterY, YCoords[pixel.yIndex + 2])
        /\ InUnitInterval(pixel.xWeight)
        /\ InUnitInterval(pixel.yWeight)

Least(a, b) == IF a <= b THEN a ELSE b

\* The grid value nearest to row j and column i (sequence indices), the last
\* row or column standing in for the rows or columns the grid lacks.
NearestStored(j, i) ==
    Stored(Least(j, Len(heatmapData.heatmap)),
           Least(i, Len(heatmapData.heatmap[Least(j, Len(heatmapData.heatmap))])))

(***************************************************************************)
(* C18.  When drawHeatmap does not interpolate (the point lies on or       *)
(* beyond the last row or column), the value sampled is the grid value     *)
(* nearest to heatmap[yIndex][xIndex], the last row or column standing in  *)
(* for missing ones; it is 0 for want of a value only when the heatmap     *)
(* holds no value at all.                                                  *)
(***************************************************************************)
C18_FallbackIsNearestValue ==
    (Sampled /\ ~pixel.interpolated) =>
        IF HasStored(1, 1)
        THEN pixel.xgValue = NearestStored(pixel.yIndex + 1, pixel.xIndex + 1)
        ELSE pixel.xgValue = RInt(0)

\* The situation_*, shotType_* and interaction_* names a request can spell.
SituationColumns == {"situation_" \o s : s \in VALID_SITUATIONS}
ShotTypeColumns == {"shotType_" \o t : t \in VALID_SHOT_TYPES}
InteractionColumns ==
    {"interaction_" \o s \o "_" \o t : s \in VALID_SITUATIONS, t \in VALID_SHOT_TYPES}

\* The columns of the call's schema, and those at which its vector is 1.0.
Schema(c) == SeqToSet(MODEL_FEATURES[calls[c].chosenModel])

Ones(c) ==
    {MODEL_FEATURES[calls[c].chosenModel][i] :
        i \in {j \in DOMAIN calls[c].featureVector :
                  calls[c].featureVector[j] = Val(RInt(1))}}

(***************************************************************************)
(* C19.  In a feature vector whose schema has situation columns, built for *)
(* a present situation s, exactly one situation_* entry is 1.0 and it is   *)
(* situation_s; built without a situation, no situation_* entry is 1.0.    *)
(* Every other situation_* entry is 0.0.  The same holds for the           *)
(* shotType_* entries and the shot type.                                   *)
(***************************************************************************)
C19_OneHotSituationAndShotType ==
    \A c \in Calls :
        HasVector(c) =>
            /\ NonZeroColumns(c) \cap (SituationColumns \cup ShotTypeColumns)
                  \subseteq Ones(c)
            /\ (Present(calls[c].args.situation) /\ Schema(c) \cap SituationColumns # {})
                  => Ones(c) \cap SituationColumns =
                         {"situation_" \o calls[c].args.situation.v}
            /\ ~Present(calls[c].args.situation)
                  => Ones(c) \cap SituationColumns = {}
            /\ (Present(calls[c].args.shotType) /\ Schema(c) \cap ShotTypeColumns # {})
                  => Ones(c) \cap ShotTypeColumns =
                         {"shotType_" \o calls[c].args.shotType.v}
            /\ ~Present(calls[c].args.shotType)
                  => Ones(c) \cap ShotTypeColumns = {}

\* C19 witness: the vector of a SetPiece header has situation_SetPiece (the
\* ninth Advanced column) and shotType_Head (the tenth) at 1.0 and no other
\* situation_* or shotType_* entry.
C19_Witness ==
    /\ HasVector(1)
    /\ calls[1].args.situation = Str("SetPiece")
    /\ calls[1].args.shotType = Str("Head")
    /\ Schema(1) \cap SituationColumns # {}
    /\ calls[1].featureVector[9] = Val(RInt(1))
    /\ calls[1].featureVector[10] = Val(RInt(1))
    /\ Ones(1) \cap (SituationColumns \cup ShotTypeColumns) =
           {"situation_SetPiece", "shotType_Head"}

\* A pair of situation and shot type for which the Advanced schema has no
\* interaction column.
Unlisted(a) ==
    /\ a.situation = Str("DirectFreekick")
    /\ a.shotType \in {Str("Head"), Str("OtherBodyPart")}

(***************************************************************************)
(* C20.  At most one interaction_* entry of a feature vector is 1.0 and    *)
(* the others are 0.0; interaction_s_t is 1.0 exactly when s and t are     *)
(* both present and the schema lists that column, which only the Advanced  *)
(* schema does.  For DirectFreekick with Head or OtherBodyPart no          *)
(* interaction entry is 1.0, and a request with such a pair and            *)
(* coordinates in range gets its vector: the only errors left to it are    *)
(* those of loading and running the model.                                 *)
(***************************************************************************)
C20_AtMostOneInteraction ==
    \A c \in Calls :
        /\ HasVector(c) =>
              /\ Cardinality(Ones(c) \cap InteractionColumns) <= 1
              /\ NonZeroColumns(c) \cap InteractionColumns \subseteq Ones(c)
              /\ \A s \in VALID_SITUATIONS, t \in VALID_SHOT_TYPES :
                    "interaction_" \o s \o "_" \o t \in Ones(c) <=>
                        /\ calls[c].args.situation = Str(s)
                        /\ calls[c].args.shotType = Str(t)
                        /\ "interaction_" \o s \o "_" \o t \in Schema(c)
              /\ Ones(c) \cap InteractionColumns # {}
                    => calls[c].chosenModel = "advanced_model"
              /\ Unlisted(calls[c].args) => Ones(c) \cap InteractionColumns = {}
        /\ (/\ Started(c)
            /\ Unlisted(calls[c].args)
            /\ ReachesRangeCheck(calls[c].args)
            /\ InUnitSquare(AfterNormalisationX(calls[c].args),
                            AfterNormalisationY(calls[c].args)))
              => /\ HasVector(c)
                 /\ calls[c].chosenModel = "advanced_model"
                 /\ calls[c].outcome.error \in {"", ERR_LOAD, ERR_RUN}

\* C20 witness: a DirectFreekick header has resolved on the Advanced
\* variant with situation_DirectFreekick and shotType_Head set and every
\* interaction entry at 0.0.
C20_Witness ==
    /\ calls[1].args.situation = Str("DirectFreekick")
    /\ calls[1].args.shotType = Str("Head")
    /\ calls[1].chosenModel = "advanced_model"
    /\ calls[1].outcome.status = "resolved"
    /\ Ones(1) \cap (SituationColumns \cup ShotTypeColumns) =
           {"situation_DirectFreekick", "shotType_Head"}
    /\ Ones(1) \cap InteractionColumns = {}

\* A FromCorner header sets interaction_FromCorner_Head, the sixteenth
\* Advanced column, and no other interaction entry.
C20_WitnessSet ==
    /\ HasVector(1)
    /\ calls[1].args.situation = Str("FromCorner")
    /\ calls[1].args.shotType = Str("Head")
    /\ calls[1].featureVector[16] = Val(RInt(1))
    /\ Ones(1) \cap InteractionColumns = {"interaction_FromCorner_Head"}

\* The call's normalised point is one of the two goalposts.
OnPost(c) ==
    \E i \in DOMAIN GOAL_POSTS :
        calls[c].normX = GOAL_POSTS[i][1] /\ calls[c].normY = GOAL_POSTS[i][2]

\* The angle_to_goal entry of the call's vector (fourth column of every
\* schema).
Angle(c) == calls[c].featureVector[4]

(***************************************************************************)
(* C21.  For a shot on a goalpost, (1.0, 0.45) or (1.0, 0.55), the         *)
(* angle_to_goal entry is 0 and the request is not rejected by predict's   *)
(* own checks; for every other point the entry is the arc cosine of        *)
(* dot / (mag1 * mag2), clamped to [-1, 1], with both magnitudes non-zero,  *)
(* so the angle is defined.                                                *)
(***************************************************************************)
C21_AngleDefined ==
    \A c \in Calls :
        HasVector(c) =>
            /\ OnPost(c) =>
                  /\ Angle(c) = Val(RInt(0))
                  /\ calls[c].outcome.error \in {"", ERR_LOAD, ERR_RUN}
            /\ ~OnPost(c) =>
                  /\ Angle(c).k = "acos"
                  /\ RLt(RInt(0), Angle(c).b)
                  /\ RLt(RInt(0), Angle(c).c)

\* C21 witness: a shot from the post (1.0, 0.45) has resolved, its angle 0.
C21_Witness ==
    /\ HasVector(1)
    /\ calls[1].normX = RInt(1)
    /\ calls[1].normY = Rat(45, 100)
    /\ Angle(1) = Val(RInt(0))
    /\ calls[1].outcome.status = "resolved"

\* The call ran the model and resolved with its output.
RanAndResolved(c) ==
    calls[c].calledRun /\ calls[c].pc = "done" /\ calls[c].outcome.status = "resolved"

\* r is a whole number of hundredths.
MultipleOfHundredth(r) == 100 % r.d = 0

(***************************************************************************)
(* C22.  The xG of a call that ran the model is index 1 of the             *)
(* probabilities rounded to two decimals: a multiple of 0.01 within half a *)
(* hundredth of the raw probability (the larger one on a tie).             *)
(***************************************************************************)
C22_RoundedToTwoDecimals ==
    \A c \in Calls :
        RanAndResolved(c) =>
            /\ MultipleOfHundredth(calls[c].outcome.result.xG)
            /\ RLt(RSub(calls[c].raw, Rat(1, 200)), calls[c].outcome.result.xG)
            /\ RLe(calls[c].outcome.result.xG, RAdd(calls[c].raw, Rat(1, 200)))

\* C22 witness: the raw probability 0.1234 has been returned as 0.12.
C22_Witness ==
    /\ RanAndResolved(1)
    /\ calls[1].raw = Rat(1234, 10000)
    /\ calls[1].outcome.result.xG = Rat(12, 100)

\* is_normalised is the boolean false, the one value that asks for division.
AsksForDivision(a) == Get(a.normalisation, "is_normalised") = Bool(FALSE)

\* The checks of predict in their order, each with its message: the message
\* of the first check the request fails, "" when it passes them all.  A
\* coordinate or dimension counts as non-numeric when parseFloat yields NaN.
FirstFailure(a) ==
    IF IsNullish(a.x) \/ IsNullish(a.y) THEN ERR_MISSING_XY
    ELSE IF IsNaN(parseFloat(a.x)) \/ IsNaN(parseFloat(a.y)) THEN ERR_NOT_NUMERIC
    ELSE IF Present(a.situation) /\ ~SetHas(VALID_SITUATIONS, a.situation)
    THEN ERR_SITUATION
    ELSE IF Present(a.shotType) /\ ~SetHas(VALID_SHOT_TYPES, a.shotType)
    THEN ERR_SHOT_TYPE
    ELSE IF ~HasOwn(a.normalisation, "is_normalised") THEN ERR_NO_KEY
    ELSE IF /\ AsksForDivision(a)
            /\ \/ IsNullish(Get(a.normalisation, "max_pitch_width"))
               \/ IsNullish(Get(a.normalisation, "max_pitch_length"))
    THEN ERR_DIMS_REQUIRED
    ELSE IF /\ AsksForDivision(a)
            /\ \/ IsNaN(parseFloat(Get(a.normalisation, "max_pitch_width")))
               \/ IsNaN(parseFloat(Get(a.normalisation, "max_pitch_length")))
    THEN ERR_DIMS_NUMERIC
    ELSE IF /\ AsksForDivision(a)
            /\ \/ RLe(parseFloat(Get(a.normalisation, "max_pitch_width")).v, RInt(0))
               \/ RLe(parseFloat(Get(a.normalisation, "max_pitch_length")).v, RInt(0))
    THEN ERR_DIMS_POSITIVE
    ELSE IF ~InUnitSquare(AfterNormalisationX(a), AfterNormalisationY(a))
    THEN ERR_RANGE
    ELSE ""

(***************************************************************************)
(* C24.  predict applies its checks in the order missing coordinate,       *)
(* non-numeric coordinate, invalid situation, invalid shot type, missing   *)
(* is_normalised key, missing dimension, non-numeric dimension,            *)
(* non-positive dimension, out-of-range coordinate, and rejects with the   *)
(* message of the first one that fails, before any model is touched.  The  *)
(* Penalty constant is returned only to a request that passes them all.    *)
(***************************************************************************)
C24_FirstFailingCheckReported ==
    \A c \in Calls :
        Started(c) =>
            /\ FirstFailure(calls[c].args) # "" =>
                  /\ calls[c].outcome = Rejected(FirstFailure(calls[c].args))
                  /\ Finished(c)
                  /\ Untouched(c)
            /\ FirstFailure(calls[c].args) = "" =>
                  calls[c].outcome.error \notin ValidationErrors
            /\ calls[c].outcome = Resolved(PenaltyResult(calls[c].chosenModel)) =>
                  FirstFailure(calls[c].args) = ""

\* C24 witness: a Penalty request with an unknown shot type, no
\* is_normalised key and an out-of-range x has been rejected for its shot
\* type, the first of the three failures.
C24_Witness ==
    /\ Finished(1)
    /\ calls[1].args.situation = Str("Penalty")
    /\ calls[1].args.shotType = Str("Volley")
    /\ calls[1].args.x = Num(Rat(3, 2))
    /\ calls[1].args.y = Num(Rat(1, 2))
    /\ calls[1].args.normalisation = Obj(<<>>)
    /\ calls[1].outcome = Rejected(ERR_SHOT_TYPE)

\* A Penalty request with out-of-range coordinates and one with a malformed
\* config have been rejected instead of returning the constant.
C24_PenaltyRejected ==
    /\ Finished(1)
    /\ calls[1].args.situation = Str("Penalty")
    /\ calls[1].args.x = Num(Rat(3, 2))
    /\ calls[1].args.y = Num(Rat(1, 2))
    /\ calls[1].args.shotType = Null
    /\ calls[1].args.normalisation = Normalised
    /\ calls[1].outcome = Rejected(ERR_RANGE)

\* A request that passes the checks of predict itself and whose config has
\* an is_normalised key with a value other than the boolean false.
NotAskingForDivision(a) ==
    /\ ~IsNullish(a.x) /\ ~IsNullish(a.y)
    /\ ~IsNaN(parseFloat(a.x)) /\ ~IsNaN(parseFloat(a.y))
    /\ isValidSituation(a.situation) /\ isValidShotType(a.shotType)
    /\ HasOwn(a.normalisation, "is_normalised")
    /\ ~AsksForDivision(a)

(***************************************************************************)
(* C25.  When the is_normalised key is present with any value other than   *)
(* the boolean false (true, null, 0, a string), x and y are left           *)
(* undivided, max_pitch_width and max_pitch_length are neither used nor    *)
(* validated, and the request is rejected exactly when x or y is outside   *)
(* [0,1], with the range error.  A vector built from divided coordinates   *)
(* belongs to a request whose is_normalised is false.                      *)
(***************************************************************************)
C25_DividedOnlyWhenFalse ==
    \A c \in Calls :
        /\ (Started(c) /\ NotAskingForDivision(calls[c].args)) =>
              IF InUnitSquare(parseFloat(calls[c].args.x).v, parseFloat(calls[c].args.y).v)
              THEN /\ calls[c].outcome.error \notin ValidationErrors
                   /\ HasVector(c) =>
                         /\ calls[c].normX = parseFloat(calls[c].args.x).v
                         /\ calls[c].normY = parseFloat(calls[c].args.y).v
              ELSE calls[c].outcome = Rejected(ERR_RANGE)
        /\ (/\ HasVector(c)
            /\ \/ calls[c].normX # parseFloat(calls[c].args.x).v
               \/ calls[c].normY # parseFloat(calls[c].args.y).v)
              => AsksForDivision(calls[c].args)

\* C25 witness: (0.5, 0.5) sent with is_normalised 0 and the dimensions
\* 68 and 105 has resolved at (0.5, 0.5).
C25_Witness ==
    /\ Finished(1)
    /\ HasOwn(calls[1].args.normalisation, "is_normalised")
    /\ calls[1].args.x = Num(Rat(1, 2))
    /\ calls[1].args.y = Num(Rat(1, 2))
    /\ Get(calls[1].args.normalisation, "is_normalised") = Num(RInt(0))
    /\ Get(calls[1].args.normalisation, "max_pitch_length") = Num(RInt(105))
    /\ calls[1].outcome.status = "resolved"
    /\ calls[1].outcome.result.x = Rat(1, 2)
    /\ calls[1].outcome.result.y = Rat(1, 2)
    /\ calls[1].args.situation # Str("Penalty")

\* A true is_normalised with a negative max_pitch_width has been accepted.
C25_DimensionsIgnored ==
    /\ Finished(1)
    /\ HasOwn(calls[1].args.normalisation, "is_normalised")
    /\ Get(calls[1].args.normalisation, "is_normalised") = Bool(TRUE)
    /\ Get(calls[1].args.normalisation, "max_pitch_width") = Num(RInt(-68))
    /\ calls[1].outcome.status = "resolved"

\* The calls of loadHeatmapData that await their answer.
InFlight == fetches["click"] + fetches["DOMContentLoaded"]

(***************************************************************************)
(* C29.  The load button is disabled whenever a call of loadHeatmapData    *)
(* is in flight and enabled when none is, at most one call started by the  *)
(* button is in flight at a time, and a load that fails leaves heatmapData *)
(* null with no heatmap being drawn.                                       *)
(***************************************************************************)
C29_ButtonDisabledWhileLoading ==
    /\ [](/\ loadButton.disabled <=> InFlight > 0
          /\ fetches["click"] <= 1)
    /\ [][\A o \in DOMAIN fetches :
             HeatmapLoadFailed(o) => heatmapData' = Null /\ ~loop'.running]_vars

(***************************************************************************)
(* C23: once both DOMContentLoaded listeners of the home page (the page    *)
(* script's and that of health_check.js) have run, in whichever order, the *)
(* loading overlay is hidden and the page's interactions are enabled: the  *)
(* click and change listeners are added and isBackendHealthy is true, and  *)
(* they stay so.                                                           *)
(***************************************************************************)
C23_InteractionsEnabledAfterLoad ==
    home.ran = Listeners => home.overlay.hidden /\ home.listening /\ home.isBackendHealthy

(***************************************************************************)
(* C26: on the home page, once every requested prediction has settled and  *)
(* callXGPrediction has resumed for each, the page shows the outcome of    *)
(* the request made last: its xG as the target and the displayed number    *)
(* if it resolved, 'Error' if it rejected.  In particular the error of an  *)
(* earlier request does not replace the result of a later one.             *)
(***************************************************************************)
Requested == {c \in Calls : calls[c].pc # "idle"}

C26_LastRequestWins ==
    \A c \in Requested :
        /\ home.continued = Requested
        /\ \A d \in Requested : d <= c
        => IF calls[c].outcome.status = "resolved"
           THEN /\ home.targetXG = calls[c].outcome.result.xG
                /\ home.xgValue = [textContent |-> "toFixed(2)",
                                   number |-> calls[c].outcome.result.xG]
           ELSE home.xgValue.textContent = "Error"

(***************************************************************************)
(* C27: in the match plotter an operation that awaits a prediction (a new  *)
(* shot, the repositioned selection, the edited selection) never ends in   *)
(* a TypeError on a null match, a null selection or a missing shot, and    *)
(* when it resumes every shot it writes or adds belongs to the match that  *)
(* was current when it started and is the shot it was started for,         *)
(* whatever the user selected, deleted, loaded or reset in between.        *)
(***************************************************************************)
Written(op) ==
    IF currentMatch' = Null THEN {}
    ELSE {i \in DOMAIN currentMatch'.shots :
            \/ currentMatch = Null
            \/ i \notin DOMAIN currentMatch.shots
            \/ currentMatch'.shots[i] # currentMatch.shots[i]}

C27_AppliedToItsOwnShot ==
    /\ [](thrown \notin {"add", "move", "save"})
    /\ [][\A op \in pending, xg \in XgAnswers :
            PredictionAnswered(op, xg) =>
                \A i \in Written(op) : /\ currentMatch.id = op.match
                                       /\ currentMatch'.shots[i].ref = op.ref]_vars

(***************************************************************************)
(* C28: in the match plotter every shot's index field is its position in   *)
(* currentMatch.shots, and selectedShot, when it is not null, has the      *)
(* index of a shot of the current match.                                   *)
(***************************************************************************)
C28_IndexesAndSelection ==
    /\ currentMatch # Null =>
         \A i \in DOMAIN currentMatch.shots : currentMatch.shots[i].index = i - 1
    /\ selectedShot # Null =>
         /\ currentMatch # Null
         /\ selectedShot.index + 1 \in DOMAIN currentMatch.shots

====
